---- MODULE Spec2Model ----
(***************************************************************************)
(* Model of the hub ingestion core: the identity reconciliation and upsert *)
(* engine (services/resource_service.py), the embedding trigger            *)
(* (services/embedder.py), the sync tasks with their paginated, retrying   *)
(* clients (tasks/shopify_sync.py, tasks/wordpress_sync.py), the sync      *)
(* dispatcher (tasks/dispatcher.py) and the tenant context of a session    *)
(* (db/session.py), the read path of the API (api/resources.py), the       *)
(* embedding task (tasks/embeddings.py) and the adapters                   *)
(* (adapters/shopify.py, adapters/wordpress.py).                           *)
(*                                                                         *)
(* The specifications share the storage operators:                         *)
(*   Spec          sequential calls of upsert / get / search (one call per *)
(*                 step);                                                  *)
(*   SpecConc      sync runs whose upsert calls interleave statement by    *)
(*                 statement;                                              *)
(*   SpecSync      one worker running the same sync task twice over a      *)
(*                 paged source, with failing page fetches;                *)
(*   SpecDispatch  one sync request, dispatched directly or through the    *)
(*                 API;                                                    *)
(*   SpecUnits     units of work on sessions over pooled connections;      *)
(*   SpecClient    one iteration of a client over arbitrary responses;     *)
(*   SpecApi       one request to the API over any stored rows;            *)
(*   SpecEmbed     upserts and the embedding worker taking their messages; *)
(*   SpecEmbedConc upserts and two embedding workers whose tasks overlap;  *)
(*   SpecAdapters  one raw item normalized and mapped by its adapter;      *)
(*   SpecFetch     one call of a client's request method under @retry.     *)
(***************************************************************************)
EXTENDS Integers, Sequences, FiniteSets, TLC

\* ---------------------------------------------------------------- bounds
MaxIds == 3        \* surrogate keys minted in Spec / SpecConc
MaxCalls == 2      \* service calls made in Spec
MaxRunCalls == 1   \* upsert calls of one sync run in SpecConc
MaxItems == 250    \* largest source size of SpecSync
MaxPages == 3      \* requests of one client iteration in SpecClient

\* ------------------------------------------------------------- constants
BatchSize == 100   \* len(batch) >= 100
MaxAttempts_four == 3 + 1
MaxAttempts == 3   \* stop_after_attempt(3)
ShopifyPageSize == 50     \* products(first: 50, ...)
WordPressPageSize == 100  \* "per_page": 100

\* --------------------------------------------------------------- values
None == "<None>"   \* Python None / SQL NULL for string columns
NoId == 0          \* HubResource.id is None
NoText == <<None>> \* a text column that is None
NoEmbedding == 0   \* embedding is None
T1 == 1            \* a last-updated timestamp given by a source
T2 == 2            \* a later one
func_now == 3      \* func.now(): the time of the statement, later than both
Tenants == {"tA", "tB"}

Truthy(s) == s # None /\ s # ""

\* func.coalesce(source_site, "") and (resource.source_site or "")
Coalesce(site) == IF site = None THEN "" ELSE site

\* the lookup key of a resource or a row: (source, source_site or "", source_id)
IdentKey(r) == <<r.source, Coalesce(r.source_site), r.source_id>>

\* the identity key of the data model: (tenant_id, source, source_site, source_id)
RawKey(r) == <<r.tenant_id, r.source, r.source_site, r.source_id>>
OwnRows(st, tenant_id) == {r \in st : r.tenant_id = tenant_id}

\* HubResource (models/resource.py), reduced to the fields the engine reads
HubResource(id, tenant_id, source, source_site, source_id, type, title, body_text) ==
  [id |-> id, tenant_id |-> tenant_id, source |-> source, source_site |-> source_site,
   source_id |-> source_id, type |-> type, title |-> title, body_text |-> body_text,
   body_html |-> NoText, updated_at |-> T1, embedding |-> NoEmbedding]

\* the columns of HubResourceRow written by upsert (all but embedding)
RowColumns == {"id", "tenant_id", "source", "source_site", "source_id", "type", "title", "body_text",
               "body_html", "updated_at"}

\* ResourceService._to_row: model_dump(exclude={"embedding"})
to_row(resource) == [c \in RowColumns |-> resource[c]]

\* ResourceService._to_model: every column of the row
to_model(row) == row

\* ------------------------------------------------------------- storage
\* row-level security policy of hub_resources: a row is visible to, and
\* may be written by, the tenant named by app.tenant_id
RlsPolicy(row, ctx) == row.tenant_id = ctx

Visible(st, ctx) == {r \in st : RlsPolicy(r, ctx)}

\* apply_tenant_rls: set_config('app.tenant_id', tenant_id, true)
apply_tenant_rls_other(tenant_id) == CHOOSE t \in Tenants : t # tenant_id
apply_tenant_rls(tenant_id) == tenant_id

\* uq_resource_origin: UniqueConstraint(tenant_id, source, source_site, source_id);
\* source_site is nullable and SQL treats NULLs as distinct
UniqueViolation(st, row) ==
  \E r \in st : /\ r.id # row.id
                /\ r.tenant_id = row.tenant_id
                /\ r.source = row.source
                /\ r.source_site # None /\ row.source_site # None
                /\ r.source_site = row.source_site
                /\ r.source_id = row.source_id

\* session.merge(row) followed by its flush: UPDATE of the row with that
\* primary key when the session can see one, INSERT otherwise; the
\* statement fails on a primary key or uq_resource_origin violation
\* (IntegrityError) and on a row the policy rejects.
\* The UPDATE sets the columns whose value differs from the loaded row and
\* is not issued when none does; updated_at has onupdate=func.now(), which
\* applies when the UPDATE does not set the column itself.  The row object
\* carries no embedding, so that column is never set.
MergeError_unchecked(pkClash, policyOk, uqClash) ==
  IF pkClash \/ uqClash THEN "IntegrityError" ELSE None
MergeError(pkClash, policyOk, uqClash) ==
  IF pkClash \/ uqClash THEN "IntegrityError"
  ELSE IF ~ policyOk THEN "PolicyViolation" ELSE None
merge(st, ctx, row) ==
  LET found == {r \in Visible(st, ctx) : r.id = row.id} IN
  IF found # {}
    THEN LET old == CHOOSE r \in found : TRUE
             changed == {c \in RowColumns : row[c] # old[c]}
             new == IF changed = {} THEN old
                    ELSE [c \in RowColumns \cup {"embedding"} |->
                            IF c = "embedding" THEN old.embedding
                            ELSE IF c = "updated_at" /\ c \notin changed THEN func_now
                            ELSE row[c]]
         IN [error |-> MergeError(FALSE, RlsPolicy(new, ctx), UniqueViolation(st \ {old}, new)),
             store |-> (st \ {old}) \cup {new}]
    ELSE LET new == row @@ [embedding |-> NoEmbedding]
         IN [error |-> MergeError(\E r \in st : r.id = row.id, RlsPolicy(new, ctx),
                                  UniqueViolation(st, new)),
             store |-> st \cup {new}]

\* for row in rows: session.merge(row), then session.commit(); the first
\* failing statement raises and the transaction is rolled back.
\* merge_range applies rows[lo..hi] in order (by halves, to keep the
\* evaluation shallow)
RECURSIVE merge_range(_, _, _, _, _)
merge_range(st, ctx, rows, lo, hi) ==
  IF lo > hi THEN [error |-> None, store |-> st]
  ELSE IF lo = hi THEN merge(st, ctx, rows[lo])
  ELSE LET mid == (lo + hi) \div 2
           left == merge_range(st, ctx, rows, lo, mid)
       IN IF left.error # None THEN left
          ELSE merge_range(left.store, ctx, rows, mid + 1, hi)

\* the rows a failed statement leaves behind are kept
merge_all_partial(st, ctx, rows) ==
  LET m == merge_range(st, ctx, rows, 1, Len(rows)) IN
  [ok |-> m.error = None, error |-> m.error, store |-> m.store]
\* the committed store after the merges and the commit: on an exception
\* `finally: session.close()` rolls the transaction back
merge_all(st, ctx, rows) ==
  LET m == merge_range(st, ctx, rows, 1, Len(rows)) IN
  IF m.error = None THEN [ok |-> TRUE, error |-> None, store |-> m.store]
  ELSE [ok |-> FALSE, error |-> m.error, store |-> st]

\* ------------------------------------------------------- _ensure_ids
\* keys of the dict `missing`: keyless resources with a non-empty source_id
Missing(resources) ==
  {IdentKey(resources[i]) :
     i \in {j \in DOMAIN resources : Truthy(resources[j].source_id) /\ resources[j].id = NoId}}

\* the resources _ensure_ids gives an id: resource.id is None
Missing_ids(resources) == {i \in DOMAIN resources : resources[i].id = NoId}

\* the rows the identity lookup selects
LookupRows(visible, tenant_id, missing) ==
  {r \in visible : r.tenant_id = tenant_id /\ IdentKey(r) \in missing}

\* the dict `existing`: one id per key found; when several rows share a
\* key the row order of the result decides, which SQL leaves open
ExistingMaps(rows) ==
  LET keys == {IdentKey(r) : r \in rows}
      Cands(k) == {r.id : r \in {x \in rows : IdentKey(x) = k}}
  IN IF \A k \in keys : Cardinality(Cands(k)) = 1
       THEN {[k \in keys |-> CHOOSE id \in Cands(k) : TRUE]}
       ELSE {f \in [keys -> {r.id : r \in rows}] : \A k \in keys : f[k] \in Cands(k)}

\* the ids after the loops of _ensure_ids; uuid7() is the next unused key
ensure_ids_always_mint(resources, existing, next) ==
  LET minted == {i \in DOMAIN resources : resources[i].id = NoId}
  IN [i \in DOMAIN resources |->
        IF resources[i].id # NoId THEN resources[i]
        ELSE [resources[i] EXCEPT !.id = next + Cardinality({j \in minted : j < i})]]
\* a resource that carries an id is given the id found for its key
ensure_ids_rekey(resources, existing, next) ==
  LET found == DOMAIN existing
      minted == {i \in DOMAIN resources :
                   resources[i].id = NoId /\ IdentKey(resources[i]) \notin found}
  IN [i \in DOMAIN resources |->
        IF IdentKey(resources[i]) \in found
          THEN [resources[i] EXCEPT !.id = existing[IdentKey(resources[i])]]
        ELSE IF resources[i].id # NoId THEN resources[i]
        ELSE [resources[i] EXCEPT !.id = next + Cardinality({j \in minted : j < i})]]
ensure_ids(resources, existing, next) ==
  LET found == DOMAIN existing
      minted == {i \in DOMAIN resources :
                   resources[i].id = NoId /\ IdentKey(resources[i]) \notin found}
  IN [i \in DOMAIN resources |->
        IF resources[i].id # NoId THEN resources[i]
        ELSE IF i \in minted
          THEN [resources[i] EXCEPT !.id = next + Cardinality({j \in minted : j < i})]
          ELSE [resources[i] EXCEPT !.id = existing[IdentKey(resources[i])]]]

\* the ids a call to _ensure_ids can produce from the rows it can see
EnsureChoices(st, ctx, tenant_id, resources, next) ==
  LET missing == Missing(resources) IN
  IF missing = {}
    THEN {ensure_ids(resources, <<>>, next)}
    ELSE {ensure_ids(resources, existing, next) :
            existing \in ExistingMaps(LookupRows(Visible(st, ctx), tenant_id, missing))}

Range(s) == {s[i] : i \in DOMAIN s}
\* (resource.id for resource in resources)
Ids(resources) == [i \in DOMAIN resources |-> resources[i].id]
\* the next unused surrogate key after _ensure_ids turned `before` into `after`
NextAfter(before, after, next) ==
  next + Cardinality({i \in DOMAIN before : before[i].id = NoId /\ after[i].id >= next})

\* ------------------------------------------------- EmbeddingQueue.enqueue
enqueue_always(q, tenant_id, resource_ids) ==
  Append(q, [tenant_id |-> tenant_id, resource_ids |-> resource_ids])
enqueue(q, tenant_id, resource_ids) ==
  IF resource_ids = <<>> THEN q
  ELSE Append(q, [tenant_id |-> tenant_id, resource_ids |-> resource_ids])

\* ---------------------------------------------------------- read paths
Lower(c) == IF c = "R" THEN "r" ELSE IF c = "E" THEN "e" ELSE IF c = "D" THEN "d" ELSE c
LowerAll(s) == [i \in DOMAIN s |-> Lower(s[i])]
\* column.ilike("%q%"): NULL never matches
ilike(text, q) ==
  /\ text # NoText
  /\ \E i \in 0..(Len(text) - Len(q)) :
        LowerAll(SubSeq(text, i + 1, i + Len(q))) = LowerAll(q)

\* the rows ResourceService.get selects: WHERE id = :resource_id
get_rows(st, tenant_id, resource_id) ==
  {r \in Visible(st, apply_tenant_rls(tenant_id)) : r.id = resource_id}

\* the rows ResourceService.search selects (title and body_text of the
\* four matched columns are modelled)
search_rows(st, tenant_id, q, type_) ==
  {r \in Visible(st, apply_tenant_rls(tenant_id)) :
     /\ r.tenant_id = tenant_id
     /\ Truthy(type_) => r.type = type_
     /\ q # NoText /\ q # <<>> => (ilike(r.title, q) \/ ilike(r.body_text, q))}

\* ------------------------------------------------------------ variables
VARIABLES
  store,      \* committed rows of hub_resources
  nextId,     \* the next surrogate key uuid7() returns
  queue,      \* embedding messages sent, in order
  calls,      \* Spec: upsert calls made
  last,       \* Spec: the last service call, its arguments and its outcome
  assigned,   \* Spec: (tenant, identity key, surrogate key) of every keyless
              \*       record returned by a completed upsert whose batch holds
              \*       that identity key once
  pc,         \* SpecConc: where each worker stands in its upsert call
  sess,       \* SpecConc: tenant, resources and tenant context of that call
  status,     \* SpecConc: "running", "done" or "failed", per sync run
  err,        \* SpecConc: the exception that ended a failed run
  ncalls,     \* SpecConc: upsert calls each run has begun
  commits,    \* SpecConc: (tenant, surrogate keys) of every committed batch
  raced,      \* SpecConc: identity keys two overlapping upserts both carried
              \*           keyless while no row held them
  src,        \* SpecSync: the source: its kind, its items, its post types
  run,        \* SpecSync: the sync run in progress (1 or 2), 0 before the first
  rstat,      \* SpecSync: "pending", "running", "done" or "failed", per run
  rerr,       \* SpecSync: what ended a failed run: "fetch" or "upsert"
  client,     \* SpecSync: the client's iteration: stream, page, cursor, failed
              \*           attempts of the fetch under way (attempt) and of the last
              \*           fetch that got through (retried), the items fetched and
              \*           not yet yielded (lo..hi), whether pages remain; the
              \*           responses that failed since the last page came (fails)
              \*           and the most that failed before any page that came
              \*           earlier than the last one (earlier)
  batch,      \* SpecSync: the batch being accumulated (items in arrival order)
  log,        \* SpecSync: per run, the batches handed to upsert, in call order
  keys,       \* SpecSync: per run, the surrogate keys its upserts returned
  hist,       \* SpecSync: per run, attempts made by the fetch that ended it,
              \*           items taken from the stream, rows stored at its end,
              \*           responses that failed since the last page came (fails)
  request,    \* SpecDispatch: the sync request: how it arrives, source, fields
  tasks,      \* SpecDispatch: the task messages sent with send_task, in order
  reply,      \* SpecDispatch: "pending", then what the caller got back
  conn,       \* SpecUnits: per pooled connection, the unit of work holding it,
              \*            whether a transaction is open, the value of
              \*            app.tenant_id and whether it is transaction-local
  unit,       \* SpecUnits: per worker, the unit of work it runs: operation,
              \*            tenant, position, connection of its session
  stmts,      \* SpecUnits: (operation, tenant of the unit, app.tenant_id in
              \*            effect) of every statement executed after set_config
  iter,       \* SpecClient: the client's iteration: kind, page, cursor, done
  reqs,       \* SpecClient: the requests made: the cursor or page number sent
  resps,      \* SpecClient: the responses received, in order
  yielded,    \* SpecClient: the items yielded, in order
  raw,        \* SpecAdapters: the raw item: its adapter, whether it is still a
              \*               GraphQL node or a flat payload, its members
  mapped,     \* SpecAdapters: what the adapter returned or raised for it
  emb,        \* SpecEmbedConc: per embedding worker, the run of enqueue_embedding
              \*                under way: its message and the rows it loaded
  fetch,      \* SpecFetch: one call of a client's retried request method: the
              \*            client, the outcome of each attempt made so far,
              \*            whether the call returned or raised and what
  delivered,  \* SpecEmbed: how many messages of queue the embedding worker
              \*            has taken
  task        \* SpecEmbed: the last run of enqueue_embedding: its message,
              \*            the rows for which the provider raised, the
              \*            exception that ended it, the store before it

dbVars == <<store, nextId, queue>>
seqVars == <<calls, last, assigned>>
concVars == <<pc, sess, status, err, ncalls, commits, raced>>
syncVars == <<src, run, rstat, rerr, client, batch, log, keys, hist>>
dispVars == <<request, tasks, reply>>
poolVars == <<conn, unit, stmts>>
iterVars == <<iter, reqs, resps, yielded>>
extraVars == <<delivered, task, raw, mapped, fetch, emb>>
moreVars == <<request, tasks, reply, conn, unit, stmts, iter, reqs, resps, yielded,
              delivered, task, raw, mapped, fetch, emb>>
vars == <<store, nextId, queue, calls, last, assigned,
          pc, sess, status, err, ncalls, commits, raced,
          src, run, rstat, rerr, client, batch, log, keys, hist,
          request, tasks, reply, conn, unit, stmts, iter, reqs, resps, yielded,
          delivered, task, raw, mapped, fetch, emb>>

\* ------------------------------------------------- inputs of Spec
Red == <<"R", "e", "d">>
Blue == <<"b", "l", "u", "e">>
RecInputs ==
  { HubResource(NoId, "tA", "shopify", "s1", "a", "product", Red, NoText),
    HubResource(NoId, "tA", "shopify", "s1", "a", "product", Blue, <<"r", "e", "d">>),
    HubResource(NoId, "tB", "shopify", "s1", "a", "product", Red, NoText),
    HubResource(NoId, "tA", "shopify", None, "a", "post", Red, NoText),
    HubResource(NoId, "tA", "manual", None, "", "page", Red, NoText),
    HubResource(NoId, "tA", "wordpress", "s1", "a", "post", Blue, NoText) }
MaxBatch == 2
\* a record that carries surrogate key 1, as returned by an earlier call
Keyed == [HubResource(1, "tA", "shopify", None, "a", "post", Blue, NoText) EXCEPT !.updated_at = T2]
KeyedBatches ==
  { <<Keyed>>,
    <<Keyed, HubResource(NoId, "tA", "shopify", None, "a", "post", Red, NoText)>>,
    <<HubResource(NoId, "tA", "wordpress", "s1", "a", "post", Blue, NoText), Keyed>> }
\* the records of longer batches: two versions of one item and an item
\* without a site
LongInputs ==
  { HubResource(NoId, "tA", "shopify", "s1", "a", "product", Red, NoText),
    HubResource(NoId, "tA", "shopify", "s1", "a", "product", Blue, <<"r", "e", "d">>),
    HubResource(NoId, "tA", "shopify", None, "a", "post", Red, NoText) }
\* every batch of up to two records, the batches of three and more records
\* over LongInputs, and the batches with a keyed record
Batches ==
  UNION {[1..n -> IF n <= 2 THEN RecInputs ELSE LongInputs] : n \in 0..MaxBatch} \cup KeyedBatches
Queries == {NoText, <<"e", "D">>}
Types == {None, "post"}

NoCall == [op |-> "none"]

InitDb ==
  /\ store = {}
  /\ nextId = 1
  /\ queue = <<>>

InitSeq ==
  /\ calls = 0
  /\ last = NoCall
  /\ assigned = {}

Procs == {"w1", "w2"}
NoSession == [tenant_id |-> None, input |-> <<>>, resources |-> <<>>, ctx |-> None]
NoError == [type |-> None, at |-> None]

InitConc ==
  /\ pc = [p \in Procs |-> "idle"]
  /\ sess = [p \in Procs |-> NoSession]
  /\ status = [p \in Procs |-> "running"]
  /\ err = [p \in Procs |-> NoError]
  /\ ncalls = [p \in Procs |-> 0]
  /\ commits = <<>>
  /\ raced = {}

Runs == 1..2
NoSource == [kind |-> None, n |-> 0, split |-> 0, dup |-> 0]
NoClient == [stream |-> 1, page |-> 0, cursor |-> 0, attempt |-> 0, retried |-> 0,
             fails |-> 0, earlier |-> 0,
             lo |-> 1, hi |-> 0, more |-> TRUE]
NoHist == [attempts |-> 0, taken |-> 0, rows |-> 0, fails |-> 0]

IdleSync ==
  /\ run = 0
  /\ rstat = [r \in Runs |-> "pending"]
  /\ rerr = [r \in Runs |-> None]
  /\ client = NoClient
  /\ batch = <<>>
  /\ log = [r \in Runs |-> <<>>]
  /\ keys = [r \in Runs |-> {}]
  /\ hist = [r \in Runs |-> NoHist]

\* no sync request, no unit of work, no client iteration
Workers == {"u1", "u2"}
Conns == {"c1", "c2"}
NoRequest == [via |-> None]
NoConn == [owner |-> None, intx |-> FALSE, guc |-> None, local |-> FALSE, base |-> None,
           prev |-> None]
NoUnit == [op |-> None, tenant_id |-> None, arg |-> None, pc |-> "idle", todo |-> <<>>,
           conn |-> None, session |-> None, exit |-> None]
NoIter == [kind |-> None, page |-> 0, cursor |-> None, done |-> FALSE]

IdleDispatch ==
  /\ request = NoRequest
  /\ tasks = <<>>
  /\ reply = None

IdleUnits ==
  /\ conn = [c \in Conns |-> NoConn]
  /\ unit = [w \in Workers |-> NoUnit]
  /\ stmts = {}

IdleClient ==
  /\ iter = NoIter
  /\ reqs = <<>>
  /\ resps = <<>>
  /\ yielded = <<>>

\* no embedding task has run, no item is being mapped
NoTask == [msg |-> 0]
NoRaw == [adapter |-> None]
NoMapped == [error |-> "pending"]
IdleEmbed ==
  /\ delivered = 0
  /\ task = NoTask
NoFetch == [kind |-> None]
IdleFetch == fetch = NoFetch
\* the worker processes that run enqueue_embedding
EmbWorkers == {1, 2}
NoWork == [pc |-> "idle"]
IdleWorkers == emb = [w \in EmbWorkers |-> NoWork]
IdleExtra ==
  /\ IdleEmbed
  /\ raw = NoRaw
  /\ mapped = NoMapped
  /\ IdleFetch
  /\ IdleWorkers

Init ==
  /\ InitDb /\ InitSeq /\ InitConc /\ src = NoSource /\ IdleSync
  /\ IdleDispatch /\ IdleUnits /\ IdleClient
  /\ IdleExtra

\* ResourceService.upsert, one whole call
upsert(tenant_id, resources) ==
  /\ calls < MaxCalls
  /\ nextId + Cardinality(Missing_ids(resources)) <= MaxIds + 1
  /\ \A i \in DOMAIN resources : resources[i].id < nextId
  /\ LET ctx == apply_tenant_rls(tenant_id) IN
     \E withIds \in EnsureChoices(store, ctx, tenant_id, resources, nextId) :
       LET rows == [i \in DOMAIN withIds |-> to_row(withIds[i])]
           m == merge_all(store, ctx, rows)
       IN /\ nextId' = NextAfter(resources, withIds, nextId)
          /\ store' = m.store
          /\ queue' = IF m.ok THEN enqueue(queue, tenant_id, Ids(withIds)) ELSE queue
          /\ last' = [op |-> "upsert", tenant_id |-> tenant_id, resources |-> resources,
                      out |-> withIds, ok |-> m.ok, pre |-> store, next |-> nextId]
          /\ assigned' = IF m.ok
                           THEN assigned \cup
                                {<<tenant_id, <<resources[i].source, resources[i].source_site,
                                               resources[i].source_id>>, withIds[i].id>> :
                                   i \in {j \in DOMAIN resources :
                                            /\ resources[j].id = NoId
                                            /\ \A k \in DOMAIN resources :
                                                 IdentKey(resources[k]) = IdentKey(resources[j]) => k = j}}
                           ELSE assigned
  /\ calls' = calls + 1
  /\ UNCHANGED concVars /\ UNCHANGED syncVars /\ UNCHANGED moreVars

\* ResourceService.get: scalar_one() raises NoResultFound on no row
get(tenant_id, resource_id) ==
  /\ LET rows == get_rows(store, tenant_id, resource_id) IN
     last' = IF rows = {}
               THEN [op |-> "get", tenant_id |-> tenant_id, resource_id |-> resource_id,
                     ok |-> FALSE, error |-> "ResourceNotFoundError", out |-> {}]
               ELSE [op |-> "get", tenant_id |-> tenant_id, resource_id |-> resource_id,
                     ok |-> TRUE, error |-> None, out |-> {to_model(r) : r \in rows}]
  /\ UNCHANGED <<store, nextId, queue, calls, assigned>>
  /\ UNCHANGED concVars /\ UNCHANGED syncVars /\ UNCHANGED moreVars

\* ResourceService.search
search(tenant_id, q, type_) ==
  /\ last' = [op |-> "search", tenant_id |-> tenant_id, q |-> q, type_ |-> type_, ok |-> TRUE,
              out |-> {to_model(r) : r \in search_rows(store, tenant_id, q, type_)}]
  /\ UNCHANGED <<store, nextId, queue, calls, assigned>>
  /\ UNCHANGED concVars /\ UNCHANGED syncVars /\ UNCHANGED moreVars

Next ==
  \/ \E t \in Tenants, rs \in Batches : upsert(t, rs)
  \/ \E t \in Tenants, id \in 1..MaxIds : get(t, id)
  \/ \E t \in Tenants, q \in Queries, ty \in Types : search(t, q, ty)

Spec == Init /\ [][Next]_vars

\* ------------------------------------------------------------ SpecConc
\* Each worker is one sync run: a sequence of upsert calls (the calls of
\* sync_shopify_store / sync_wordpress_site), ended by the first
\* exception.  A call is taken statement by statement, so the calls of
\* two runs interleave; the store holds committed rows only.
ConcBatches ==
  { <<>>,
    <<HubResource(NoId, "tA", "shopify", "s1", "a", "product", Red, NoText)>>,
    <<HubResource(NoId, "tA", "shopify", "s1", "a", "product", Blue, NoText)>>,
    <<HubResource(NoId, "tA", "shopify", None, "a", "post", Red, NoText)>>,
    <<HubResource(NoId, "tB", "shopify", "s1", "a", "product", Red, NoText)>> }

InTransaction(p) == pc[p] \in {"begun", "ensured", "merged"}
Keyless(resources) == {resources[i] : i \in {j \in DOMAIN resources : resources[j].id = NoId}}
Stored(k) == \E r \in store : RawKey(r) = k

\* an exception leaves upsert through `finally: session.close()` and ends
\* the sync run
Raise(p, type) ==
  /\ status' = [status EXCEPT ![p] = "failed"]
  /\ err' = [err EXCEPT ![p] = [type |-> type, at |-> pc[p]]]
  /\ pc' = [pc EXCEPT ![p] = "idle"]

\* upsert, lines 28-30: session = self._session_factory(); apply_tenant_rls
upsert_begin(p, tenant_id, resources) ==
  /\ status[p] = "running" /\ pc[p] = "idle"
  /\ ncalls[p] < MaxRunCalls
  /\ pc' = [pc EXCEPT ![p] = "begun"]
  /\ ncalls' = [ncalls EXCEPT ![p] = @ + 1]
  /\ sess' = [sess EXCEPT ![p] = [tenant_id |-> tenant_id, input |-> resources,
                                  resources |-> resources,
                                  ctx |-> apply_tenant_rls(tenant_id)]]
  /\ raced' = raced \cup
       {RawKey(r) : r \in {x \in Keyless(resources) :
           /\ x.tenant_id = tenant_id
           /\ ~ Stored(RawKey(x))
           /\ \E q \in Procs \ {p} :
                /\ InTransaction(q)
                /\ sess[q].tenant_id = tenant_id
                /\ \E y \in Keyless(sess[q].input) : RawKey(y) = RawKey(x)}}
  /\ UNCHANGED <<status, err, commits>>
  /\ UNCHANGED dbVars /\ UNCHANGED seqVars /\ UNCHANGED syncVars /\ UNCHANGED moreVars

\* upsert, line 31: self._ensure_ids(session, tenant_id, resources)
upsert_ensure_ids(p) ==
  /\ pc[p] = "begun"
  /\ \E withIds \in EnsureChoices(store, sess[p].ctx, sess[p].tenant_id,
                                  sess[p].resources, nextId) :
       /\ NextAfter(sess[p].resources, withIds, nextId) <= MaxIds + 1
       /\ nextId' = NextAfter(sess[p].resources, withIds, nextId)
       /\ sess' = [sess EXCEPT ![p].resources = withIds]
  /\ pc' = [pc EXCEPT ![p] = "ensured"]
  /\ UNCHANGED <<store, queue, status, err, ncalls, commits, raced>>
  /\ UNCHANGED seqVars /\ UNCHANGED syncVars /\ UNCHANGED moreVars

SessionRows(p) == [i \in DOMAIN sess[p].resources |-> to_row(sess[p].resources[i])]

\* upsert, lines 32-34: the merges, whose statements fail on a violated
\* constraint
upsert_merge(p) ==
  /\ pc[p] = "ensured"
  /\ LET m == merge_all(store, sess[p].ctx, SessionRows(p)) IN
     IF m.ok
       THEN /\ pc' = [pc EXCEPT ![p] = "merged"]
            /\ UNCHANGED <<status, err>>
       ELSE Raise(p, m.error)
  /\ UNCHANGED <<sess, ncalls, commits, raced>>
  /\ UNCHANGED dbVars /\ UNCHANGED seqVars /\ UNCHANGED syncVars /\ UNCHANGED moreVars

\* upsert, line 35: session.commit(); a row another transaction committed
\* since the merge makes the blocked statement fail
upsert_commit(p) ==
  /\ pc[p] = "merged"
  /\ LET m == merge_all(store, sess[p].ctx, SessionRows(p)) IN
     IF m.ok
       THEN /\ store' = m.store
            /\ commits' = Append(commits, <<sess[p].tenant_id, Ids(sess[p].resources)>>)
            /\ pc' = [pc EXCEPT ![p] = "committed"]
            /\ UNCHANGED <<status, err>>
       ELSE /\ Raise(p, m.error)
            /\ UNCHANGED <<store, commits>>
  /\ UNCHANGED <<nextId, queue, sess, ncalls, raced>>
  /\ UNCHANGED seqVars /\ UNCHANGED syncVars /\ UNCHANGED moreVars

\* upsert, lines 39-40: self._embed_queue.enqueue(...); return
upsert_enqueue(p) ==
  /\ pc[p] = "committed"
  /\ queue' = enqueue(queue, sess[p].tenant_id, Ids(sess[p].resources))
  /\ pc' = [pc EXCEPT ![p] = "idle"]
  /\ UNCHANGED <<store, nextId, sess, status, err, ncalls, commits, raced>>
  /\ UNCHANGED seqVars /\ UNCHANGED syncVars /\ UNCHANGED moreVars

\* the statement the call is about to issue (the identity lookup, a merge,
\* the commit) fails in the database: the exception leaves upsert
db_error_then_enqueue(p) ==
  /\ InTransaction(p)
  /\ Raise(p, "OperationalError")
  /\ queue' = enqueue(queue, sess[p].tenant_id, Ids(sess[p].resources))
  /\ UNCHANGED <<store, nextId, sess, ncalls, commits, raced>>
  /\ UNCHANGED seqVars /\ UNCHANGED syncVars /\ UNCHANGED moreVars
db_error(p) ==
  /\ InTransaction(p)
  /\ Raise(p, "OperationalError")
  /\ UNCHANGED <<sess, ncalls, commits, raced>>
  /\ UNCHANGED dbVars /\ UNCHANGED seqVars /\ UNCHANGED syncVars /\ UNCHANGED moreVars

\* the sync task returns after its last upsert
sync_end(p) ==
  /\ status[p] = "running" /\ pc[p] = "idle"
  /\ status' = [status EXCEPT ![p] = "done"]
  /\ UNCHANGED <<pc, sess, err, ncalls, commits, raced>>
  /\ UNCHANGED dbVars /\ UNCHANGED seqVars /\ UNCHANGED syncVars /\ UNCHANGED moreVars

NextConc ==
  \/ \E p \in Procs, t \in Tenants, rs \in ConcBatches : upsert_begin(p, t, rs)
  \/ \E p \in Procs : upsert_ensure_ids(p)
  \/ \E p \in Procs : upsert_merge(p)
  \/ \E p \in Procs : upsert_commit(p)
  \/ \E p \in Procs : upsert_enqueue(p)
  \/ \E p \in Procs : db_error(p)
  \/ \E p \in Procs : sync_end(p)

SpecConc == Init /\ [][NextConc]_vars

\* ------------------------------------------------------------ SpecSync
\* One worker runs a sync task and, once it has completed, runs it again
\* over the unchanged source.  The source holds src.n items;
\* a Shopify source serves them as one stream in pages of 50, a WordPress
\* source as two post types (src.split items, then the rest) in pages of
\* 100.  With src.dup = d > 0 the last item repeats the vendor id of the
\* item d places before it.
SyncTenant == "tA"
SyncSite == "s1"
Sizes == {0, 1, 50, 99, 100, 101, 200, MaxItems}
Sources ==
  {[kind |-> k, n |-> n, split |-> sp, dup |-> d] :
     k \in {"shopify", "wordpress"}, n \in Sizes, sp \in 0..MaxItems, d \in {0, 1, 100}}
ValidSource(x) ==
  /\ x.dup < x.n
  /\ IF x.kind = "shopify" THEN x.split = x.n ELSE x.split \in {0, x.n \div 2, x.n}

PageSize(kind) == IF kind = "shopify" THEN ShopifyPageSize ELSE WordPressPageSize
\* post_types or ["posts", "pages"]; a Shopify store is one stream
Streams(x) == IF x.kind = "shopify" THEN 1 ELSE 2
First(x, st) == IF st = 1 THEN 1 ELSE x.split + 1
Last(x, st) == IF x.kind = "shopify" \/ st = 2 THEN x.n ELSE x.split
Min(a, b) == IF a <= b THEN a ELSE b
CeilDiv(a, b) == (a + b - 1) \div b

\* payload.get("id") of item i
VendorId(x, i) == IF x.dup > 0 /\ i = x.n THEN i - x.dup ELSE i

\* map_shopify_product / map_wordpress_post, as far as the engine reads it
map_item(x, i) ==
  HubResource(NoId, SyncTenant, x.kind, SyncSite, ToString(VendorId(x, i)),
              IF x.kind = "shopify" THEN "product" ELSE "post", Red, NoText)

\* the page the source returns for a request: the items after `cursor`,
\* and whether the client goes on to another page of the stream.
\* iter_products: pageInfo.hasNextPage; iter_items: stop on an empty page
\* or when page >= X-WP-TotalPages
page_response(x, st, page, cursor) ==
  LET lo == cursor + 1
      hi == Min(cursor + PageSize(x.kind), Last(x, st))
      count == Last(x, st) - First(x, st) + 1
  IN [lo |-> lo, hi |-> hi,
      more |-> IF x.kind = "shopify" THEN hi < Last(x, st)
               ELSE hi >= lo /\ ~ (page >= CeilDiv(count, WordPressPageSize))]

\* stop=stop_after_attempt(3): the call gives up once this many attempts failed
GiveUp_late(attempt) == attempt > MaxAttempts
GiveUp(attempt) == attempt >= MaxAttempts

\* if len(batch) >= 100
BatchFull_late(b) == Len(b) > BatchSize
BatchFull(b) == Len(b) >= BatchSize

InitSync ==
  /\ InitDb /\ InitSeq /\ InitConc
  /\ src \in {x \in Sources : ValidSource(x)}
  /\ IdleSync
  /\ IdleDispatch /\ IdleUnits /\ IdleClient
  /\ IdleExtra

Buffered == client.lo <= client.hi
\* the iteration has yielded everything: no item buffered, no page and no
\* stream left
Exhausted == ~ Buffered /\ ~ client.more /\ client.stream >= Streams(src)

EndRun_done(r, outcome, cause) ==
  /\ rstat' = [rstat EXCEPT ![r] = "done"]
  /\ rerr' = [rerr EXCEPT ![r] = cause]
EndRun(r, outcome, cause) ==
  /\ rstat' = [rstat EXCEPT ![r] = outcome]
  /\ rerr' = [rerr EXCEPT ![r] = cause]

\* service.upsert(tenant_id=tenant_uuid, resources=batch): the whole call
\* of ResourceService.upsert; an exception ends the run
sync_upsert(r, items, taken) ==
  LET resources == [i \in DOMAIN items |-> map_item(src, items[i])]
      ctx == apply_tenant_rls(SyncTenant)
  IN \E withIds \in EnsureChoices(store, ctx, SyncTenant, resources, nextId) :
       LET m == merge_all(store, ctx, [i \in DOMAIN withIds |-> to_row(withIds[i])]) IN
       /\ nextId' = NextAfter(resources, withIds, nextId)
       /\ log' = [log EXCEPT ![r] = Append(@, items)]
       /\ batch' = <<>>
       /\ IF m.ok
            THEN /\ store' = m.store
                 /\ queue' = enqueue(queue, SyncTenant, Ids(withIds))
                 /\ keys' = [keys EXCEPT ![r] = @ \cup Range(Ids(withIds))]
                 /\ hist' = [hist EXCEPT ![r].taken = taken]
                 /\ UNCHANGED <<rstat, rerr>>
            ELSE /\ EndRun(r, "failed", "upsert")
                 /\ hist' = [hist EXCEPT ![r].taken = taken, ![r].rows = Cardinality(store)]
                 /\ UNCHANGED <<store, queue, keys>>

\* the task is invoked: client and service are built, batch = []
sync_start(r) ==
  /\ rstat[r] = "pending"
  /\ IF r = 1 THEN TRUE ELSE rstat[r - 1] = "done"
  /\ run' = r
  /\ rstat' = [rstat EXCEPT ![r] = "running"]
  /\ client' = NoClient
  /\ batch' = <<>>
  /\ UNCHANGED <<src, rerr, log, keys, hist>>
  /\ UNCHANGED dbVars /\ UNCHANGED seqVars /\ UNCHANGED concVars /\ UNCHANGED moreVars

\* the stream and page the next request is for
NextStream == IF client.more THEN client.stream ELSE client.stream + 1
NextPage == IF client.more THEN client.page + 1 ELSE 1
NextCursor == IF client.more THEN client.cursor ELSE First(src, NextStream) - 1
Fetching(r) ==
  /\ run = r /\ rstat[r] = "running"
  /\ ~ Buffered
  /\ client.more \/ client.stream < Streams(src)

\* @retry wraps each call of _post_graphql / _get on its own: the attempts
\* of a call are counted from 1, whatever the calls before it went through
AttemptsOfNextCall_carried(attempt) == attempt
AttemptsOfNextCall(attempt) == 0

\* _post_graphql / _get: an attempt succeeds and the page is returned
fetch_ok(r) ==
  /\ Fetching(r)
  /\ LET resp == page_response(src, NextStream, NextPage, NextCursor) IN
     client' = [stream |-> NextStream, page |-> NextPage,
                cursor |-> IF resp.hi >= resp.lo THEN resp.hi ELSE NextCursor,
                attempt |-> AttemptsOfNextCall(client.attempt), retried |-> client.attempt,
                fails |-> 0,
                earlier |-> IF client.retried > client.earlier THEN client.retried
                            ELSE client.earlier,
                lo |-> resp.lo, hi |-> resp.hi, more |-> resp.more]
  /\ UNCHANGED <<src, run, rstat, rerr, batch, log, keys, hist>>
  /\ UNCHANGED dbVars /\ UNCHANGED seqVars /\ UNCHANGED concVars /\ UNCHANGED moreVars

\* _post_graphql / _get: an attempt fails; @retry makes another attempt
\* unless the attempts are used up, and then the exception leaves the task
fetch_fail(r) ==
  /\ Fetching(r)
  /\ IF GiveUp(client.attempt + 1)
       THEN /\ EndRun(r, "failed", "fetch")
            /\ hist' = [hist EXCEPT ![r].attempts = client.attempt + 1,
                                    ![r].rows = Cardinality(store),
                                    ![r].fails = client.fails + 1]
            /\ UNCHANGED client
       ELSE /\ client' = [client EXCEPT !.attempt = @ + 1, !.fails = @ + 1]
            /\ UNCHANGED <<rstat, rerr, hist>>
  /\ UNCHANGED <<src, run, batch, log, keys>>
  /\ UNCHANGED dbVars /\ UNCHANGED seqVars /\ UNCHANGED concVars /\ UNCHANGED moreVars

\* one iteration of the for loop: batch.append(map(item)); a full batch is
\* upserted at once and batch = []
take_item(r) ==
  /\ run = r /\ rstat[r] = "running"
  /\ Buffered
  /\ client' = [client EXCEPT !.lo = @ + 1]
  /\ LET b == Append(batch, client.lo) IN
     IF BatchFull(b)
       THEN sync_upsert(r, b, hist[r].taken + 1)
       ELSE /\ batch' = b
            /\ hist' = [hist EXCEPT ![r].taken = @ + 1]
            /\ UNCHANGED <<rstat, rerr, log, keys>>
            /\ UNCHANGED dbVars
  /\ UNCHANGED <<src, run>>
  /\ UNCHANGED seqVars /\ UNCHANGED concVars /\ UNCHANGED moreVars

\* the stream has ended: if batch: service.upsert(...); the task returns
sync_finish(r) ==
  /\ run = r /\ rstat[r] = "running"
  /\ Exhausted
  /\ IF batch # <<>>
       THEN LET resources == [i \in DOMAIN batch |-> map_item(src, batch[i])]
                ctx == apply_tenant_rls(SyncTenant)
            IN \E withIds \in EnsureChoices(store, ctx, SyncTenant, resources, nextId) :
                 LET m == merge_all(store, ctx, [i \in DOMAIN withIds |-> to_row(withIds[i])])
                 IN /\ nextId' = NextAfter(resources, withIds, nextId)
                    /\ log' = [log EXCEPT ![r] = Append(@, batch)]
                    /\ batch' = <<>>
                    /\ store' = IF m.ok THEN m.store ELSE store
                    /\ queue' = IF m.ok THEN enqueue(queue, SyncTenant, Ids(withIds)) ELSE queue
                    /\ keys' = IF m.ok THEN [keys EXCEPT ![r] = @ \cup Range(Ids(withIds))]
                               ELSE keys
                    /\ hist' = [hist EXCEPT ![r].rows =
                                  Cardinality(IF m.ok THEN m.store ELSE store)]
                    /\ IF m.ok THEN EndRun(r, "done", None) ELSE EndRun(r, "failed", "upsert")
       ELSE /\ EndRun(r, "done", None)
            /\ hist' = [hist EXCEPT ![r].rows = Cardinality(store)]
            /\ UNCHANGED <<batch, log, keys>>
            /\ UNCHANGED dbVars
  /\ UNCHANGED <<src, run, client>>
  /\ UNCHANGED seqVars /\ UNCHANGED concVars /\ UNCHANGED moreVars

NextSync ==
  \/ \E r \in Runs : sync_start(r)
  \/ \E r \in Runs : fetch_ok(r)
  \/ \E r \in Runs : fetch_fail(r)
  \/ \E r \in Runs : take_item(r)
  \/ \E r \in Runs : sync_finish(r)

SpecSync == InitSync /\ [][NextSync]_vars

\* -------------------------------------------------------- SpecDispatch
\* One sync request, drawn by Init, is dispatched: either by a direct call
\* of dispatch_sync with a payload dict, or through POST /resources/sync/
\* {source}, whose body is parsed into SyncRequest.  A field that is
\* absent from the payload is None here (payload.get gives None).
FieldValues == {None, "", "x"}
DispatchSources == {"shopify", "wordpress", "drive", "manual"}
Requests ==
  {[via |-> v, source |-> s, tenant_id |-> "tA", store_domain |-> sd, access_token |-> at,
    base_url |-> bu, site_id |-> si, source_site |-> ss, api_version |-> av] :
     v \in {"call", "api"}, s \in DispatchSources, sd \in FieldValues, at \in FieldValues,
     bu \in FieldValues, si \in FieldValues, ss \in FieldValues, av \in {None, "2025-01"}}

\* SyncRequest(...).model_dump(exclude_none=True): the model has no
\* source_site field, so the body's source_site is dropped
model_dump(req) == [req EXCEPT !.source_site = None]

\* celery_app.send_task(name, kwargs=...)
send_task(name, kwargs) == [name |-> name, kwargs |-> kwargs]

enqueue_shopify_sync(tenant_id, store_domain, access_token, api_version) ==
  send_task("hub.tasks.shopify.sync_store",
            [tenant_id |-> tenant_id, store_domain |-> store_domain,
             access_token |-> access_token, api_version |-> api_version])

\* post_types and auth_token are not given: list(post_types or ["posts", "pages"])
enqueue_wordpress_sync(tenant_id, site_id, base_url) ==
  send_task("hub.tasks.wordpress.sync_site",
            [tenant_id |-> tenant_id, site_id |-> site_id, base_url |-> base_url,
             auth_token |-> None, post_types |-> <<"posts", "pages">>])

Rejected == [error |-> "SyncDispatchError", sent |-> <<>>]

\* dispatch_sync: the exception it raises, if any, and the tasks it sends
dispatch_sync_lenient(source, tenant_id, payload) ==
  IF source = "shopify"
    THEN IF ~ Truthy(payload.store_domain) /\ ~ Truthy(payload.access_token) THEN Rejected
         ELSE [error |-> None,
               sent |-> <<enqueue_shopify_sync(tenant_id, payload.store_domain, payload.access_token,
                            IF payload.api_version = None THEN "2024-10" ELSE payload.api_version)>>]
  ELSE IF source = "wordpress"
    THEN LET site_id == IF Truthy(payload.site_id) THEN payload.site_id ELSE payload.source_site
         IN IF ~ Truthy(payload.base_url) /\ ~ Truthy(site_id) THEN Rejected
            ELSE [error |-> None,
                  sent |-> <<enqueue_wordpress_sync(tenant_id, site_id, payload.base_url)>>]
  ELSE Rejected
dispatch_sync(source, tenant_id, payload) ==
  IF source = "shopify"
    THEN IF ~ Truthy(payload.store_domain) \/ ~ Truthy(payload.access_token) THEN Rejected
         ELSE [error |-> None,
               sent |-> <<enqueue_shopify_sync(tenant_id, payload.store_domain, payload.access_token,
                            IF payload.api_version = None THEN "2024-10" ELSE payload.api_version)>>]
  ELSE IF source = "wordpress"
    THEN LET site_id == IF Truthy(payload.site_id) THEN payload.site_id ELSE payload.source_site
         IN IF ~ Truthy(payload.base_url) \/ ~ Truthy(site_id) THEN Rejected
            ELSE [error |-> None,
                  sent |-> <<enqueue_wordpress_sync(tenant_id, site_id, payload.base_url)>>]
  ELSE Rejected

InitDispatch ==
  /\ InitDb /\ InitSeq /\ InitConc /\ src = NoSource /\ IdleSync
  /\ IdleUnits /\ IdleClient
  /\ request \in Requests
  /\ tasks = <<>>
  /\ reply = "pending"
  /\ IdleExtra

\* the payload dispatch_sync is called with
Payload == IF request.via = "api" THEN model_dump(request) ELSE request

\* a caller invokes dispatch_sync(source, tenant_id=..., payload=...)
call_dispatch_sync ==
  /\ request.via = "call" /\ reply = "pending"
  /\ LET d == dispatch_sync(request.source, request.tenant_id, Payload) IN
     /\ tasks' = tasks \o d.sent
     /\ reply' = IF d.error # None THEN d.error ELSE "returned"
  /\ UNCHANGED request
  /\ UNCHANGED <<dbVars, seqVars, concVars, syncVars, poolVars, iterVars, extraVars>>

\* trigger_sync: SyncDispatchError becomes 400 Bad Request, else 202
trigger_sync ==
  /\ request.via = "api" /\ reply = "pending"
  /\ LET d == dispatch_sync(request.source, request.tenant_id, Payload) IN
     /\ tasks' = tasks \o d.sent
     /\ reply' = IF d.error = "SyncDispatchError" THEN "400" ELSE "202"
  /\ UNCHANGED request
  /\ UNCHANGED <<dbVars, seqVars, concVars, syncVars, poolVars, iterVars, extraVars>>

NextDispatch ==
  \/ call_dispatch_sync
  \/ trigger_sync

SpecDispatch == InitDispatch /\ [][NextDispatch]_vars

\* ----------------------------------------------------------- SpecUnits
\* Units of work (upsert, get, search, enqueue_embedding) on sessions of
\* one SessionFactory, whose connections come from the engine's pool.  A
\* session takes a connection and begins a transaction at its first
\* statement; commit ends the transaction, close rolls back what is open
\* and returns the connection.  A connection has the setting
\* app.tenant_id: guc is its value in effect, base the value it has outside
\* a transaction; a value set with is_local = true lasts until the
\* transaction ends, one set with is_local = false stays if the
\* transaction commits.  prev is the tenant of the unit that held the
\* connection before.
\* A unit leaves its try block by returning (after its last statement, or
\* at once for enqueue_embedding with no ids), by ResourceNotFoundError
\* (get, whose select found no row) or by the exception of a failing
\* statement; the finally block then closes the session.
Ops == {"upsert", "get", "search", "enqueue_embedding"}
Args(op) ==
  IF op = "upsert" THEN {"keyless", "keyed"}
  ELSE IF op = "enqueue_embedding" THEN {"ids", "noids"}
  ELSE {"-"}

\* the statements a unit issues after apply_tenant_rls, in order:
\*   upsert             the identity lookup (when a record lacks its id),
\*                      the merges, the commit
\*   get, search        one select
\*   enqueue_embedding  nothing for an empty id list; else the select, the
\*                      updates flushed by the commit, the commit
Program(op, arg) ==
  IF op = "upsert"
    THEN IF arg = "keyless" THEN <<"select", "merge", "commit">> ELSE <<"merge", "commit">>
  ELSE IF op = "enqueue_embedding"
    THEN IF arg = "ids" THEN <<"select", "update", "commit">> ELSE <<>>
  ELSE <<"select">>

\* the third argument of set_config('app.tenant_id', :tenant_id, true)
IsLocal_false == FALSE
IsLocal == TRUE

InitUnits ==
  /\ InitDb /\ InitSeq /\ InitConc /\ src = NoSource /\ IdleSync
  /\ IdleDispatch /\ IdleClient
  /\ IdleUnits
  /\ IdleExtra

\* session = self._session_factory() / SessionFactory()
unit_open(w, op, tenant_id, arg) ==
  /\ unit[w].pc \in {"idle", "ended"}
  /\ unit' = [unit EXCEPT ![w] = [op |-> op, tenant_id |-> tenant_id, arg |-> arg,
                                  pc |-> "opened", todo |-> Program(op, arg), conn |-> None,
                                  session |-> "open", exit |-> None]]
  /\ UNCHANGED <<conn, stmts>>
  /\ UNCHANGED <<dbVars, seqVars, concVars, syncVars, dispVars, iterVars, extraVars>>

\* apply_tenant_rls(session, tenant_id): the session's first statement; it
\* takes a connection from the pool and begins the transaction
unit_apply_tenant_rls(w) ==
  /\ unit[w].pc = "opened"
  /\ \E c \in Conns :
       /\ conn[c].owner = None
       /\ conn' = [conn EXCEPT ![c] = [@ EXCEPT !.owner = w, !.intx = TRUE,
                                                !.guc = apply_tenant_rls(unit[w].tenant_id),
                                                !.local = IsLocal]]
       /\ unit' = [unit EXCEPT ![w].pc = "run", ![w].conn = c]
  /\ UNCHANGED stmts
  /\ UNCHANGED <<dbVars, seqVars, concVars, syncVars, dispVars, iterVars, extraVars>>

\* the connection after its transaction ended
EndTransaction(cn, committed) ==
  IF committed
    THEN IF cn.local THEN [cn EXCEPT !.intx = FALSE, !.guc = cn.base, !.local = FALSE]
         ELSE [cn EXCEPT !.intx = FALSE, !.base = cn.guc]
  ELSE [cn EXCEPT !.intx = FALSE, !.guc = cn.base, !.local = FALSE]

\* the unit issues its next statement
unit_execute(w) ==
  /\ unit[w].pc = "run" /\ unit[w].todo # <<>>
  /\ LET c == unit[w].conn
         st == Head(unit[w].todo)
     IN IF st = "commit"
          THEN /\ conn' = [conn EXCEPT ![c] = EndTransaction(conn[c], TRUE)]
               /\ UNCHANGED stmts
          ELSE /\ conn' = [conn EXCEPT ![c].intx = TRUE]
               /\ stmts' = stmts \cup {<<unit[w].tenant_id, conn[c].guc>>}
  /\ unit' = [unit EXCEPT ![w].todo = Tail(@)]
  /\ UNCHANGED <<dbVars, seqVars, concVars, syncVars, dispVars, iterVars, extraVars>>

\* the unit's next statement raises: apply_tenant_rls before a
\* connection could be had, or a later statement in the database; the
\* select of get, once executed, raises NoResultFound
\* (ResourceNotFoundError) on no row
unit_raise(w, exc) ==
  /\ \/ unit[w].pc = "opened" /\ exc = "exception"
     \/ /\ unit[w].pc = "run" /\ unit[w].todo # <<>>
        /\ exc = "ResourceNotFoundError" => (unit[w].op = "get" /\ Head(unit[w].todo) = "select")
  /\ unit' = [unit EXCEPT ![w].pc = "finally", ![w].exit = exc]
  /\ stmts' = IF exc = "ResourceNotFoundError"
                THEN stmts \cup {<<unit[w].tenant_id, conn[unit[w].conn].guc>>}
                ELSE stmts
  /\ UNCHANGED conn
  /\ UNCHANGED <<dbVars, seqVars, concVars, syncVars, dispVars, iterVars, extraVars>>

\* the unit returns from its try block: no statement is left
unit_return(w) ==
  /\ unit[w].pc = "run" /\ unit[w].todo = <<>>
  /\ unit' = [unit EXCEPT ![w].pc = "finally", ![w].exit = "return"]
  /\ UNCHANGED <<conn, stmts>>
  /\ UNCHANGED <<dbVars, seqVars, concVars, syncVars, dispVars, iterVars, extraVars>>

\* the unit after its session was closed
Ended(u) == [NoUnit EXCEPT !.op = u.op, !.arg = u.arg, !.exit = u.exit,
                           !.pc = "ended", !.session = "closed"]

\* finally: session.close(), on every way out of the try block: an open
\* transaction is rolled back and the connection goes back to the pool
unit_close_on_success(w) ==
  /\ unit[w].pc = "finally"
  /\ LET c == unit[w].conn IN
     IF unit[w].exit = "return"
       THEN /\ conn' = IF c = None THEN conn
                       ELSE [conn EXCEPT ![c] = [EndTransaction(conn[c], FALSE) EXCEPT
                                                   !.owner = None, !.prev = unit[w].tenant_id]]
            /\ unit' = [unit EXCEPT ![w] = Ended(unit[w])]
       ELSE /\ conn' = conn
            /\ unit' = [unit EXCEPT ![w].pc = "ended"]
  /\ UNCHANGED stmts
  /\ UNCHANGED <<dbVars, seqVars, concVars, syncVars, dispVars, iterVars, extraVars>>
unit_close(w) ==
  /\ unit[w].pc = "finally"
  /\ LET c == unit[w].conn IN
     conn' = IF c = None THEN conn
             ELSE [conn EXCEPT ![c] = [EndTransaction(conn[c], FALSE) EXCEPT
                                         !.owner = None, !.prev = unit[w].tenant_id]]
  /\ unit' = [unit EXCEPT ![w] = Ended(unit[w])]
  /\ UNCHANGED stmts
  /\ UNCHANGED <<dbVars, seqVars, concVars, syncVars, dispVars, iterVars, extraVars>>

NextUnits ==
  \/ \E w \in Workers, op \in Ops, t \in Tenants : \E arg \in Args(op) : unit_open(w, op, t, arg)
  \/ \E w \in Workers : unit_apply_tenant_rls(w)
  \/ \E w \in Workers : unit_execute(w)
  \/ \E w \in Workers, exc \in {"exception", "ResourceNotFoundError"} : unit_raise(w, exc)
  \/ \E w \in Workers : unit_return(w)
  \/ \E w \in Workers : unit_close(w)

SpecUnits == InitUnits /\ [][NextUnits]_vars

\* ---------------------------------------------------------- SpecClient
\* One iteration of a client over a source that answers each request with
\* any response: a page of 0..2 items and, for Shopify, pageInfo with
\* hasNextPage true, false or absent and an endCursor or none; for
\* WordPress, the header X-WP-TotalPages with a count or no such header.
\* Item k of the i-th response is <<i, k>>.  Every request gets through
\* (the failing ones are SpecSync's).
NoTotal == -1      \* the response has no X-WP-TotalPages header
ShopifyResponses ==
  {[n |-> n, hasNextPage |-> h, endCursor |-> e] :
     n \in 0..2, h \in {"true", "false", None}, e \in {"c1", "c2", None}}
WordPressResponses == {[n |-> n, total |-> t] : n \in 0..2, t \in {NoTotal, 0, 1, 2, 3}}

\* the items of the i-th response, in order
PageItems(i, resp) == [k \in 1..resp.n |-> <<i, k>>]

\* not page_info.get("hasNextPage") is false
HasNextPage_lenient(resp) == resp.hasNextPage # "false"
HasNextPage(resp) == resp.hasNextPage = "true"

\* int(response.headers.get("X-WP-TotalPages", page))
total_pages_unbounded(resp, page) == IF resp.total = NoTotal THEN page + 1 ELSE resp.total
total_pages(resp, page) == IF resp.total = NoTotal THEN page ELSE resp.total

\* if page >= total_pages: break
LastPage_late(resp, page) == page > total_pages(resp, page)
LastPage(resp, page) == page >= total_pages(resp, page)

InitClient ==
  /\ InitDb /\ InitSeq /\ InitConc /\ src = NoSource /\ IdleSync
  /\ IdleDispatch /\ IdleUnits
  /\ iter \in {[kind |-> "shopify", page |-> 0, cursor |-> None, done |-> FALSE],
               [kind |-> "wordpress", page |-> 1, cursor |-> None, done |-> FALSE]}
  /\ reqs = <<>>
  /\ resps = <<>>
  /\ yielded = <<>>
  /\ IdleExtra

\* one turn of the loop of ShopifyClient.iter_products
iter_products(resp) ==
  /\ iter.kind = "shopify" /\ ~ iter.done
  /\ Len(reqs) < MaxPages
  /\ reqs' = Append(reqs, iter.cursor)
  /\ resps' = Append(resps, resp)
  /\ yielded' = yielded \o PageItems(Len(resps) + 1, resp)
  /\ iter' = IF ~ HasNextPage(resp)
               THEN [iter EXCEPT !.page = @ + 1, !.done = TRUE]
               ELSE [iter EXCEPT !.page = @ + 1, !.cursor = resp.endCursor]
  /\ UNCHANGED <<dbVars, seqVars, concVars, syncVars, dispVars, poolVars, extraVars>>

\* one turn of the loop of WordPressClient.iter_items
iter_items(resp) ==
  /\ iter.kind = "wordpress" /\ ~ iter.done
  /\ Len(reqs) < MaxPages
  /\ reqs' = Append(reqs, iter.page)
  /\ resps' = Append(resps, resp)
  /\ IF resp.n = 0
       THEN /\ iter' = [iter EXCEPT !.done = TRUE]
            /\ UNCHANGED yielded
       ELSE /\ yielded' = yielded \o PageItems(Len(resps) + 1, resp)
            /\ iter' = IF LastPage(resp, iter.page)
                         THEN [iter EXCEPT !.done = TRUE]
                         ELSE [iter EXCEPT !.page = @ + 1]
  /\ UNCHANGED <<dbVars, seqVars, concVars, syncVars, dispVars, poolVars, extraVars>>

NextClient ==
  \/ \E resp \in ShopifyResponses : iter_products(resp)
  \/ \E resp \in WordPressResponses : iter_items(resp)

SpecClient == InitClient /\ [][NextClient]_vars

\* ------------------------------------------------------------- SpecApi
\* One request to the resources API over a store of committed rows:
\* GET /resources/{resource_id} or POST /resources/sync/{source}.  The
\* X-Tenant-ID header names a tenant or is not a UUID.  A request for a
\* resource comes with the failure, if any, that its unit of work meets:
\* the set_config statement or the select failing in the database, or the
\* selected row failing validation in _to_model.
ApiStores ==
  SUBSET { HubResource(1, "tA", "shopify", "s1", "a", "post", Red, NoText),
           HubResource(2, "tB", "shopify", "s1", "a", "post", Red, NoText),
           HubResource(3, "tA", "shopify", "s1", "b", "post", Blue, NoText) }
TenantHeaders == Tenants \cup {"not-a-uuid"}
GetFaults == {None, "set_config", "select", "validate"}
GetRequests ==
  {[via |-> "get", tenant_id |-> t, resource_id |-> id, fault |-> f] :
     t \in TenantHeaders, id \in 1..MaxIds, f \in GetFaults}

\* ResourceService.get: the exception it raises, if any, and the row it
\* returns.  Only NoResultFound, which scalar_one() raises on an empty
\* result, is turned into ResourceNotFoundError.
get_result_masking(st, tenant_id, resource_id, fault) ==
  LET rows == get_rows(st, tenant_id, resource_id) IN
  IF fault # None \/ rows = {} THEN [error |-> "ResourceNotFoundError", out |-> {}]
  ELSE [error |-> None, out |-> {to_model(r) : r \in rows}]
get_result(st, tenant_id, resource_id, fault) ==
  IF fault \in {"set_config", "select"} THEN [error |-> "OperationalError", out |-> {}]
  ELSE LET rows == get_rows(st, tenant_id, resource_id) IN
       IF rows = {} THEN [error |-> "ResourceNotFoundError", out |-> {}]
       ELSE IF fault = "validate" THEN [error |-> "ValidationError", out |-> {}]
       ELSE [error |-> None, out |-> {to_model(r) : r \in rows}]

InitApi ==
  /\ store \in ApiStores /\ nextId = MaxIds + 1 /\ queue = <<>>
  /\ InitSeq /\ InitConc /\ src = NoSource /\ IdleSync
  /\ IdleUnits /\ IdleClient
  /\ request \in GetRequests \cup {r \in Requests : r.via = "api"}
  /\ tasks = <<>>
  /\ reply = "pending"
  /\ IdleExtra

\* current_tenant: a header that is no UUID gives 400 before the service
\* is called.  get_resource: ResourceNotFoundError becomes 404 Not Found;
\* any other exception is unhandled (500)
get_resource ==
  /\ request.via = "get" /\ reply = "pending"
  /\ IF request.tenant_id \notin Tenants
       THEN /\ reply' = "400"
            /\ last' = last
       ELSE LET g == get_result(store, request.tenant_id, request.resource_id, request.fault) IN
            /\ last' = [op |-> "get", tenant_id |-> request.tenant_id,
                        resource_id |-> request.resource_id,
                        ok |-> g.error = None, error |-> g.error, out |-> g.out]
            /\ reply' = IF g.error = None THEN "200"
                        ELSE IF g.error = "ResourceNotFoundError" THEN "404"
                        ELSE "500"
  /\ UNCHANGED <<store, nextId, queue, calls, assigned, request, tasks>>
  /\ UNCHANGED <<concVars, syncVars, poolVars, iterVars, extraVars>>

NextApi ==
  \/ get_resource
  \/ trigger_sync

SpecApi == InitApi /\ [][NextApi]_vars

\* ----------------------------------------------------------- SpecEmbed
\* Upsert calls of sync runs and the embedding worker.  Each committed
\* batch sends one message; the worker runs enqueue_embedding on the
\* messages in the order sent, one whole task per step.  For any of the
\* rows it embeds the provider may raise, and the set_config statement,
\* the select or the commit may fail in the database.  The records carry
\* a body text, only a body html, or neither (None or the empty string).
Html == <<"<", "p", ">", "h", "i">>
EmbInputs(t) ==
  [text |-> HubResource(NoId, t, "shopify", "s1", "a", "post", Red, Red),
   none |-> HubResource(NoId, t, "shopify", "s1", "a", "post", Red, NoText),
   empty |-> [HubResource(NoId, t, "shopify", "s1", "a", "post", Red, <<>>) EXCEPT !.body_html = <<>>],
   html |-> [HubResource(NoId, t, "shopify", "s1", "a", "post", Red, <<>>) EXCEPT !.body_html = Html],
   other |-> HubResource(NoId, t, "shopify", "s1", "b", "post", Blue, Blue)]
EmbBatches(t) ==
  LET r == EmbInputs(t) IN
  {<<r.text>>, <<r.none>>, <<r.empty>>, <<r.html>>, <<r.text, r.other>>, <<r.none, r.other>>}
TaskFaults == {None, "set_config", "select", "commit"}

\* truthiness of a str | None
TextTruthy(t) == t # NoText /\ t # <<>>

\* text = row.body_text or row.body_html
TextOf(row) == IF TextTruthy(row.body_text) THEN row.body_text ELSE row.body_html

\* provider.embed(text): a vector determined by the text (the length of the
\* text stands for it; no text of the inputs has length 0)
embed(text) == Len(text)

\* the loop body of enqueue_embedding: the value row.embedding gets
EmbeddingFor_keep(row, raises) ==
  IF ~ TextTruthy(TextOf(row)) THEN row.embedding
  ELSE IF raises THEN NoEmbedding
  ELSE embed(TextOf(row))
EmbeddingFor(row, raises) ==
  IF ~ TextTruthy(TextOf(row)) THEN NoEmbedding
  ELSE IF raises THEN NoEmbedding
  ELSE embed(TextOf(row))

\* the rows enqueue_embedding selects: WHERE id IN (:uuids)
task_rows(st, tenant_id, resource_ids) ==
  {r \in Visible(st, apply_tenant_rls(tenant_id)) : r.id \in Range(resource_ids)}

\* the row as the commit's flush leaves it: an UPDATE is issued when the
\* embedding changed, and then updated_at gets onupdate=func.now()
flush_embedding(r, e) ==
  IF e = r.embedding THEN r ELSE [r EXCEPT !.embedding = e, !.updated_at = func_now]

\* enqueue_embedding: the exception that ends it, if any, and the store it
\* leaves.  raised holds the keys of the rows whose provider.embed raises.
task_result_propagating(st, tenant_id, resource_ids, raised, fault) ==
  LET rows == task_rows(st, tenant_id, resource_ids) IN
  IF fault = "set_config" THEN [error |-> "OperationalError", store |-> st]
  ELSE IF resource_ids = <<>> THEN [error |-> None, store |-> st]
  ELSE IF fault \in {"select", "commit"} THEN [error |-> "OperationalError", store |-> st]
  ELSE IF \E r \in rows : r.id \in raised /\ TextTruthy(TextOf(r))
    THEN [error |-> "Exception", store |-> st]
  ELSE [error |-> None,
        store |-> (st \ rows) \cup {flush_embedding(r, EmbeddingFor(r, FALSE)) : r \in rows}]
task_result(st, tenant_id, resource_ids, raised, fault) ==
  LET rows == task_rows(st, tenant_id, resource_ids) IN
  IF fault = "set_config" THEN [error |-> "OperationalError", store |-> st]
  ELSE IF resource_ids = <<>> THEN [error |-> None, store |-> st]
  ELSE IF fault \in {"select", "commit"} THEN [error |-> "OperationalError", store |-> st]
  ELSE [error |-> None,
        store |-> (st \ rows) \cup
                  {flush_embedding(r, EmbeddingFor(r, r.id \in raised)) : r \in rows}]

\* the worker takes the next message and runs the task on it
enqueue_embedding(raised, fault) ==
  /\ delivered < Len(queue)
  /\ LET m == queue[delivered + 1]
         res == task_result(store, m.tenant_id, m.resource_ids, raised, fault)
     IN /\ raised \subseteq {r.id : r \in {x \in task_rows(store, m.tenant_id, m.resource_ids) :
                                             TextTruthy(TextOf(x))}}
        /\ store' = res.store
        /\ task' = [msg |-> delivered + 1, tenant_id |-> m.tenant_id,
                    resource_ids |-> m.resource_ids, raised |-> raised, fault |-> fault,
                    error |-> res.error, pre |-> store]
  /\ delivered' = delivered + 1
  /\ UNCHANGED <<nextId, queue, calls, last, assigned, raw, mapped, fetch, emb>>
  /\ UNCHANGED <<concVars, syncVars, dispVars, poolVars, iterVars>>

NextEmbed ==
  \/ \E t \in Tenants : \E rs \in EmbBatches(t) : upsert(t, rs)
  \/ \E raised \in SUBSET (1..MaxIds), fault \in TaskFaults : enqueue_embedding(raised, fault)

SpecEmbed == Init /\ [][NextEmbed]_vars

\* -------------------------------------------------------- SpecEmbedConc
\* Upsert calls and two embedding workers.  A worker takes the next
\* message and runs enqueue_embedding on it in two steps, between which
\* upserts commit and the other worker runs: the select, which loads the
\* rows and after which the loop computes their embeddings from the text
\* loaded, and the commit, whose flush writes them.  No statement fails
\* and the provider does not raise.

\* session.commit() of enqueue_embedding: for each loaded row whose
\* embedding was assigned another value than the one loaded,
\* UPDATE hub_resources SET embedding = ..., updated_at = now() WHERE id = ...
\* on the row as stored at that time
commit_embeddings(st, loaded) ==
  {IF \E l \in loaded : l.id = r.id /\ EmbeddingFor(l, FALSE) # l.embedding
     THEN LET l == CHOOSE x \in loaded : x.id = r.id
          IN [r EXCEPT !.embedding = EmbeddingFor(l, FALSE), !.updated_at = func_now]
     ELSE r : r \in st}

\* enqueue_embedding up to the end of its loop: the tenant context is set,
\* the rows are selected
task_select(w) ==
  /\ emb[w].pc = "idle"
  /\ delivered < Len(queue)
  /\ LET m == queue[delivered + 1] IN
     emb' = [emb EXCEPT ![w] = [pc |-> "loaded", msg |-> delivered + 1,
                                rows |-> task_rows(store, m.tenant_id, m.resource_ids)]]
  /\ delivered' = delivered + 1
  /\ UNCHANGED <<store, nextId, queue, calls, last, assigned, task, raw, mapped, fetch>>
  /\ UNCHANGED <<concVars, syncVars, dispVars, poolVars, iterVars>>

\* enqueue_embedding: session.commit() and session.close()
task_commit(w) ==
  /\ emb[w].pc = "loaded"
  /\ store' = commit_embeddings(store, emb[w].rows)
  /\ emb' = [emb EXCEPT ![w] = NoWork]
  /\ UNCHANGED <<nextId, queue, calls, last, assigned, delivered, task, raw, mapped, fetch>>
  /\ UNCHANGED <<concVars, syncVars, dispVars, poolVars, iterVars>>

NextEmbedConc ==
  \/ \E t \in Tenants : \E rs \in EmbBatches(t) : upsert(t, rs)
  \/ \E w \in EmbWorkers : task_select(w)
  \/ \E w \in EmbWorkers : task_commit(w)

SpecEmbedConc == Init /\ [][NextEmbedConc]_vars

\* ------------------------------------------------------------ adapters
\* A JSON value, or a member of a JSON object, is [k |-> kind, v |-> value]:
\*   "absent"  the object has no such member     "null"  null / None
\*   "str"     a string, as its characters       "num"   a number
\*   "bool"    true or false                     "list"  an array of values
\*   "map"     an object of free-form members, as its (key, value) pairs
\*             in order
\*   "dict"    an object of known members, as a record of members
\* A string is the sequence of its characters (of its tokens, for an html
\* body and a post type).
JAbsent == [k |-> "absent", v |-> 0]
JNull == [k |-> "null", v |-> 0]
JStr(s) == [k |-> "str", v |-> s]
JNum(n) == [k |-> "num", v |-> n]
JBool(b) == [k |-> "bool", v |-> b]
JList(l) == [k |-> "list", v |-> l]
JMap(pairs) == [k |-> "map", v |-> pairs]
JDict(r) == [k |-> "dict", v |-> r]

\* dict.get(key): None when the key is absent
Get(m) == IF m.k = "absent" THEN JNull ELSE m
\* dict.get(key, default)
GetOr(m, default) == IF m.k = "absent" THEN default ELSE m

\* Python truthiness
Truth(x) ==
  IF x.k \in {"absent", "null"} THEN FALSE
  ELSE IF x.k = "num" THEN x.v # 0
  ELSE IF x.k = "bool" THEN x.v
  ELSE IF x.k = "dict" THEN \E f \in DOMAIN x.v : x.v[f].k # "absent"
  ELSE x.v # <<>>
\* a or b
Or(a, b) == IF Truth(a) THEN a ELSE b

\* str(x) of a scalar
Digit(n) == IF n = 0 THEN "0" ELSE IF n = 1 THEN "1" ELSE IF n = 2 THEN "2" ELSE IF n = 3 THEN "3"
            ELSE IF n = 4 THEN "4" ELSE IF n = 5 THEN "5" ELSE IF n = 6 THEN "6"
            ELSE IF n = 7 THEN "7" ELSE IF n = 8 THEN "8" ELSE "9"
RECURSIVE Digits(_)
Digits(n) == IF n < 10 THEN <<Digit(n)>> ELSE Digits(n \div 10) \o <<Digit(n % 10)>>
str(x) ==
  IF x.k = "str" THEN x.v
  ELSE IF x.k = "num" THEN Digits(x.v)
  ELSE IF x.k = "bool" THEN IF x.v THEN <<"T", "r", "u", "e">> ELSE <<"F", "a", "l", "s", "e">>
  ELSE <<"N", "o", "n", "e">>

\* sep.join(parts)
RECURSIVE Join(_, _)
Join(parts, sep) ==
  IF parts = <<>> THEN <<>>
  ELSE IF Len(parts) = 1 THEN parts[1]
  ELSE parts[1] \o sep \o Join(Tail(parts), sep)

\* s.strip()
RECURSIVE LStrip(_)
LStrip(s) == IF s # <<>> /\ Head(s) = " " THEN LStrip(Tail(s)) ELSE s
RECURSIVE RStrip(_)
RStrip(s) == IF s # <<>> /\ s[Len(s)] = " " THEN RStrip(SubSeq(s, 1, Len(s) - 1)) ELSE s
Strip(s) == RStrip(LStrip(s))

\* s.split(",")
RECURSIVE Split(_, _)
Split(s, sep) ==
  IF \A i \in DOMAIN s : s[i] # sep THEN <<s>>
  ELSE LET i == CHOOSE j \in DOMAIN s : s[j] = sep /\ \A h \in 1..(j - 1) : s[h] # sep
       IN <<SubSeq(s, 1, i - 1)>> \o Split(SubSeq(s, i + 1, Len(s)), sep)

\* [f(x) for x in xs if p(x)] building blocks
Map1(f(_), xs) == [i \in DOMAIN xs |-> f(xs[i])]
RECURSIVE NonEmpty(_)
NonEmpty(xs) ==
  IF xs = <<>> THEN <<>>
  ELSE IF Head(xs) = <<>> THEN NonEmpty(Tail(xs)) ELSE <<Head(xs)>> \o NonEmpty(Tail(xs))

\* adapters/shopify.py _stringify and adapters/wordpress.py _stringify_value
\* (the same function)
RECURSIVE stringify(_)
stringify(value) ==
  IF value.k \in {"null", "absent"} THEN <<>>
  ELSE IF value.k = "list"
    THEN Join([i \in DOMAIN value.v |-> stringify(value.v[i])], <<",">>)
  ELSE IF value.k = "map"
    THEN Join([i \in DOMAIN value.v |-> value.v[i][1] \o <<":">> \o stringify(value.v[i][2])], <<",">>)
  ELSE str(value)

\* attrs[name] = value on an insertion-ordered dict, as its (key, value) pairs
SetItem(attrs, name, value) ==
  IF \E i \in DOMAIN attrs : attrs[i][1] = name
    THEN [i \in DOMAIN attrs |-> IF attrs[i][1] = name THEN <<name, value>> ELSE attrs[i]]
    ELSE Append(attrs, <<name, value>>)

\* adapters/shopify.py _extract_tags
shopify_extract_tags(tags_field) ==
  IF ~ Truth(tags_field) THEN <<>>
  ELSE IF tags_field.k = "list" THEN NonEmpty(Map1(Strip, Map1(str, tags_field.v)))
  ELSE NonEmpty(Map1(Strip, Split(str(tags_field), ",")))

\* adapters/wordpress.py _extract_tags: only a list is taken
wordpress_extract_tags(tags_field) ==
  IF tags_field.k = "list" THEN Map1(str, tags_field.v) ELSE <<>>

\* adapters/shopify.py _map_metafields; a metafield is a dict with the
\* members namespace, key, value, stringValue, jsonValue
RECURSIVE map_metafields_from(_, _)
map_metafields_from(metafields, attrs) ==
  IF metafields = <<>> THEN attrs
  ELSE LET field == Head(metafields).v
           namespace == Or(Get(field.namespace), JStr(<<"d", "e", "f", "a", "u", "l", "t">>))
           key == Or(Get(field.key), JStr(<<>>))
           name == IF Truth(key) THEN str(namespace) \o <<".">> \o str(key) ELSE str(namespace)
           value == Or(Or(Get(field.value), Get(field.stringValue)), Get(field.jsonValue))
       IN map_metafields_from(Tail(metafields), SetItem(attrs, name, stringify(value)))
map_metafields(metafields) == map_metafields_from(metafields, <<>>)

\* adapters/wordpress.py _stringify(values, prefix=...): values is a map
wordpress_stringify(values, prefix) ==
  [i \in DOMAIN values |-> <<prefix \o values[i][1], stringify(values[i][2])>>]

\* a raised exception, in the place of a value
Err(e) == [k |-> "error", v |-> e]
IsErr(x) == x.k = "error"
\* x.get(name, default): AttributeError when x is not a dict
Member(x, name, default) ==
  IF IsErr(x) THEN x
  ELSE IF x.k # "dict" THEN Err("AttributeError")
  ELSE GetOr(x.v[name], default)
\* x[0]: TypeError when x is not a list, IndexError when it is empty
Index0(x) ==
  IF IsErr(x) THEN x
  ELSE IF x.k # "list" THEN Err("TypeError")
  ELSE IF x.v = <<>> THEN Err("IndexError")
  ELSE x.v[1]
\* a or b, where evaluating a or b may raise (b is evaluated only if a is
\* falsy)
OrElse(a, b) == IF IsErr(a) THEN a ELSE IF Truth(a) THEN a ELSE b

\* the empty dict {} for each shape of known members
NoMoney == JDict([amount |-> JAbsent, currencyCode |-> JAbsent])
NoPriceSet == JDict([shopMoney |-> JAbsent])
NoPresentment == JDict([price |-> JAbsent])

\* float(price): the number (as its digits), None on ValueError / TypeError
IsNumeric(s) ==
  /\ s # <<>>
  /\ \A i \in DOMAIN s : s[i] \in {"0", "1", "2", "3", "4", "5", "6", "7", "8", "9", "."}
  /\ Cardinality({i \in DOMAIN s : s[i] = "."}) <= 1
  /\ \E i \in DOMAIN s : s[i] # "."
float(x) ==
  IF x.k = "num" THEN [k |-> "float", v |-> Digits(x.v)]
  ELSE IF x.k = "str" /\ IsNumeric(Strip(x.v)) THEN [k |-> "float", v |-> Strip(x.v)]
  ELSE JNull

\* adapters/shopify.py _extract_price; variants is a list of dicts
extract_price(variants) ==
  IF variants.v = <<>> THEN JNull
  ELSE LET first == variants.v[1]
           price == OrElse(Member(first, "price", JNull),
                           Member(Member(Member(first, "priceSet", NoPriceSet),
                                         "shopMoney", NoMoney), "amount", JNull))
       IN IF IsErr(price) THEN price
          ELSE IF price.k = "null" THEN JNull
          ELSE float(price)

\* adapters/shopify.py _extract_currency
extract_currency(variants) ==
  IF variants.v = <<>> THEN JNull
  ELSE LET first == variants.v[1]
       IN OrElse(OrElse(Member(first, "currencyCode", JNull),
                        Member(Member(Member(first, "priceSet", NoPriceSet),
                                      "shopMoney", NoMoney), "currencyCode", JNull)),
                 Member(Member(Index0(Member(first, "presentmentPrices",
                                             JList(<<NoPresentment>>))),
                               "price", NoMoney), "currencyCode", JNull))

\* utils/text.py strip_html, on a text given as its tokens: a tag ("<p>",
\* "</p>", ...), a blank " " or a word.  The tags go, the words are joined
\* by single blanks; no word left gives None
IsTag(tok) == tok \in {"<p>", "</p>", "<b>", "</b>"}
RECURSIVE Words(_)
Words(s) ==
  IF s = <<>> THEN <<>>
  ELSE IF IsTag(Head(s)) \/ Head(s) = " " THEN Words(Tail(s))
  ELSE <<Head(s)>> \o Words(Tail(s))
strip_html(value) ==
  IF ~ Truth(value) THEN JNull
  ELSE LET words == Words(value.v) IN
       IF words = <<>> THEN JNull
       ELSE JStr(Join([i \in DOMAIN words |-> <<words[i]>>], <<" ">>))

\* _parse_dt: None for a falsy value and for one isoparse rejects
NoStamp == 0
Iso(t) == JStr(<<"T", Digit(t)>>)
parse_dt(value) ==
  IF ~ Truth(value) THEN NoStamp
  ELSE IF value = Iso(T1) THEN T1
  ELSE IF value = Iso(T2) THEN T2
  ELSE NoStamp

\* adapters/shopify.py _derive_seo; seo is None or a dict with the members
\* title, description, canonicalUrl
derive_seo(seo) ==
  IF ~ Truth(seo) THEN <<>>
  ELSE (IF Truth(Get(seo.v.title)) THEN <<<<"title", seo.v.title>>>> ELSE <<>>)
       \o (IF Truth(Get(seo.v.description))
             THEN <<<<"description", seo.v.description>>>> ELSE <<>>)
       \o (IF Truth(Get(seo.v.canonicalUrl))
             THEN <<<<"canonical_url", seo.v.canonicalUrl>>>> ELSE <<>>)

\* the first exception among the values, None if there is none
FirstError(values) ==
  IF \E i \in DOMAIN values : IsErr(values[i])
    THEN values[CHOOSE i \in DOMAIN values :
                  IsErr(values[i]) /\ \A j \in 1..(i - 1) : ~ IsErr(values[j])].v
    ELSE None

\* adapters/shopify.py map_shopify_product: the exception it raises, if
\* any, else the fields of the HubResource it returns (images and url are
\* left out)
map_shopify_product(payload) ==
  LET description == Or(Get(payload.bodyHtml), Get(payload.body_html))
      variants == Or(Get(payload.variants), JList(<<>>))
      metafields == Or(Get(payload.metafields), JList(<<>>))
      price == extract_price(variants)
      currency == extract_currency(variants)
      updated == parse_dt(Or(Get(payload.updatedAt), Get(payload.updated_at)))
      error == FirstError(<<price, currency>>)
  IN IF error # None THEN [error |-> error]
     ELSE [error |-> None,
           source |-> "shopify",
           source_id |-> str(Get(payload.id)),
           type |-> "product",
           slug |-> Get(payload.handle),
           title |-> Get(payload.title),
           body_html |-> description,
           body_text |-> strip_html(description),
           price |-> price,
           currency |-> currency,
           tags |-> shopify_extract_tags(Get(payload.tags)),
           attributes |-> map_metafields(metafields.v),
           seo |-> derive_seo(Get(payload.seo)),
           published_at |-> parse_dt(Or(Get(payload.publishedAt), Get(payload.published_at))),
           updated_at |-> IF updated = NoStamp THEN func_now ELSE updated]

\* tasks/shopify_sync.py _normalize_product_node, for the variants and the
\* metafields of a GraphQL node: the edge/node wrappers are unwrapped
RECURSIVE TruthyNodes(_)
TruthyNodes(edges) ==
  IF edges = <<>> THEN <<>>
  ELSE LET node == Get(Head(edges).v.node) IN
       (IF Truth(node) THEN <<node>> ELSE <<>>) \o TruthyNodes(Tail(edges))
NoConnection == JDict([edges |-> JAbsent, nodes |-> JAbsent])
normalize_variant(variant) ==
  LET edges == Member(Member(variant, "presentmentPrices", NoConnection), "edges", JList(<<>>))
  IN JDict([variant.v EXCEPT !.presentmentPrices = JList(TruthyNodes(edges.v))])
normalize_product_node(node) ==
  LET variants == Member(Member(JDict(node), "variants", NoConnection), "nodes", JList(<<>>))
      metafields == Member(Member(JDict(node), "metafields", NoConnection), "edges", JList(<<>>))
  IN [node EXCEPT !.variants = JList([i \in DOMAIN variants.v |-> normalize_variant(variants.v[i])]),
                  !.metafields = JList(TruthyNodes(metafields.v))]

\* adapters/wordpress.py _infer_type
WORDPRESS_TYPE_MAP == {"post", "page", "product"}
infer_type(post_type) ==
  IF ~ Truth(post_type) THEN "post"
  ELSE IF post_type.k = "str" /\ Len(post_type.v) = 1 /\ post_type.v[1] \in WORDPRESS_TYPE_MAP
    THEN post_type.v[1]
  ELSE "post"

\* adapters/wordpress.py _maybe_render
maybe_render(field) == IF field.k = "dict" THEN Get(field.v.rendered) ELSE field

\* {**a, **b} on insertion-ordered dicts
RECURSIVE Update(_, _)
Update(a, b) == IF b = <<>> THEN a ELSE Update(SetItem(a, Head(b)[1], Head(b)[2]), Tail(b))

\* the empty dict {} of the content and of yoast_head_json
NoRendered == JDict([rendered |-> JAbsent])
NoYoast == JDict([title |-> JAbsent, description |-> JAbsent, schema |-> JAbsent])

\* {k: v for k, v in seo.items() if v}
seo_items(yoast) ==
  (IF Truth(Get(yoast.v.title)) THEN <<<<"title", yoast.v.title>>>> ELSE <<>>)
  \o (IF Truth(Get(yoast.v.description)) THEN <<<<"description", yoast.v.description>>>> ELSE <<>>)
  \o (IF Truth(Get(yoast.v.schema)) THEN <<<<"schema", yoast.v.schema>>>> ELSE <<>>)

\* adapters/wordpress.py map_wordpress_post: the exception it raises, if
\* any, else the fields of the HubResource it returns (images, locale and
\* url are left out; the validation of the field types by HubResource is
\* not modelled)
map_wordpress_post(payload) ==
  LET content == Member(Or(Get(payload.content), NoRendered), "rendered", JNull)
      yoast == Or(Get(payload.yoast_head_json), NoYoast)
      meta == Or(Get(payload.meta), JMap(<<>>))
      acf == Or(Get(payload.acf), JMap(<<>>))
      title == maybe_render(Get(payload.title))
      updated == parse_dt(Get(payload.modified_gmt))
  IN IF IsErr(content) THEN [error |-> content.v]
     ELSE IF meta.k # "map" \/ acf.k # "map" \/ yoast.k # "dict" THEN [error |-> "AttributeError"]
     ELSE [error |-> None,
           source |-> "wordpress",
           source_id |-> str(Get(payload.id)),
           type |-> infer_type(Or(Get(payload.type), Get(payload.post_type))),
           slug |-> Get(payload.slug),
           title |-> title,
           body_html |-> content,
           body_text |-> strip_html(content),
           price |-> JNull,
           currency |-> JNull,
           tags |-> wordpress_extract_tags(payload.tags),
           attributes |-> Update(wordpress_stringify(meta.v, <<>>),
                                 wordpress_stringify(acf.v, <<"a", "c", "f", ".">>)),
           seo |-> seo_items(yoast),
           published_at |-> parse_dt(Get(payload.date_gmt)),
           updated_at |-> IF updated = NoStamp THEN func_now ELSE updated]

\* -------------------------------------------------------- SpecAdapters
\* One raw item, drawn by Init, goes through its adapter: a Shopify GraphQL
\* node is first normalized by the client to a flat payload, a flat
\* Shopify payload and a WordPress post are mapped directly.  The inputs
\* have every combination of their optional members absent, null or empty,
\* variants with any of their price and currency members missing, tag
\* fields given as strings and as arrays, and metadata entries with scalar,
\* array and object values.
Chars_abc == <<"a", ",", " ", "b", " ", ",", "c">>
Body == <<"<p>", "Hello", " ", " ", "<b>", "World", "</b>", "</p>">>
OptStr(S) == {JAbsent, JNull} \cup {JStr(s) : s \in S}

Money(amount, currencyCode) == JDict([amount |-> amount, currencyCode |-> currencyCode])
Variant(price, currencyCode, priceSet, presentmentPrices) ==
  JDict([price |-> price, currencyCode |-> currencyCode, priceSet |-> priceSet,
         presentmentPrices |-> presentmentPrices])
Metafield(namespace, key, value, stringValue, jsonValue) ==
  JDict([namespace |-> namespace, key |-> key, value |-> value, stringValue |-> stringValue,
         jsonValue |-> jsonValue])
ShopifyPayload(title, bodyHtml, tags, variants, metafields, seo, publishedAt, updatedAt) ==
  [id |-> JStr(<<"7">>), handle |-> JStr(<<"h">>), title |-> title, bodyHtml |-> bodyHtml,
   body_html |-> JAbsent, tags |-> tags, variants |-> variants, metafields |-> metafields,
   seo |-> seo, publishedAt |-> publishedAt, published_at |-> JAbsent,
   updatedAt |-> updatedAt, updated_at |-> JAbsent]
WordPressPayload(title, content, tags, meta, acf, yoast, type, modified_gmt) ==
  [id |-> JNum(7), slug |-> JStr(<<"h">>), title |-> title, content |-> content, tags |-> tags,
   meta |-> meta, acf |-> acf, yoast_head_json |-> yoast, type |-> type, post_type |-> JAbsent,
   date_gmt |-> JAbsent, modified_gmt |-> modified_gmt]

PriceSets ==
  {JAbsent, JNull, JDict([shopMoney |-> JAbsent]), JDict([shopMoney |-> JNull])}
  \cup {JDict([shopMoney |-> Money(a, c)]) :
          a \in {JAbsent, JStr(<<"7">>)}, c \in {JAbsent, JStr(<<"E", "U", "R">>)}}
Presentments ==
  {JAbsent, JList(<<>>), JList(<<JDict([price |-> JAbsent])>>),
   JList(<<JDict([price |-> Money(JAbsent, JStr(<<"C", "A", "D">>))])>>)}
Variants ==
  {Variant(p, c, ps, pp) :
     p \in OptStr({<<"9", ".", "5">>}), c \in OptStr({<<"U", "S", "D">>}),
     ps \in PriceSets, pp \in Presentments}
FullVariant == Variant(JStr(<<"9", ".", "5">>), JStr(<<"U", "S", "D">>), JAbsent, JAbsent)

TagFields ==
  {JAbsent, JNull, JStr(<<>>), JStr(Chars_abc), JStr(<<",", " ", ",">>), JStr(<<"a", ",", ",", "b">>),
   JList(<<>>), JList(<<JStr(<<"a">>), JStr(<<"b">>), JStr(<<"c">>)>>),
   JList(<<JStr(<<"a">>), JStr(<<" ", "b", " ">>), JStr(<<"c">>)>>),
   JList(<<JStr(<<"a">>), JStr(<<>>), JStr(<<" ">>), JStr(<<"b">>)>>),
   JList(<<JNum(12), JNum(3)>>)}

MetaValues ==
  {JNull, JStr(<<>>), JStr(<<"r", "e", "d">>), JNum(0), JNum(42), JBool(FALSE), JBool(TRUE),
   JList(<<>>), JList(<<JStr(<<"a">>), JNum(1)>>),
   JMap(<<<<<<"w">>, JNum(2)>>, <<<<"h">>, JList(<<JNum(3), JNum(4)>>)>>>>),
   JList(<<JMap(<<<<<<"k">>, JNull>>>>), JList(<<JStr(<<"x">>)>>)>>)}
Metafields ==
  {Metafield(n, k, v, sv, jv) :
     n \in OptStr({<<"c", "u", "s", "t", "o", "m">>}),
     k \in {JAbsent, JStr(<<>>), JStr(<<"c", "o", "l", "o", "r">>)},
     v \in MetaValues \cup {JAbsent},
     sv \in {JAbsent, JStr(<<"s", "v">>)}, jv \in {JAbsent, JNum(0)}}
MetafieldLists ==
  {<<m>> : m \in Metafields}
  \cup {<<Metafield(JStr(<<"n">>), JStr(<<"k">>), JStr(<<"1">>), JAbsent, JAbsent),
          Metafield(JStr(<<"m">>), JStr(<<"k">>), JStr(<<"2">>), JAbsent, JAbsent),
          Metafield(JStr(<<"n">>), JStr(<<"k">>), JStr(<<"3">>), JAbsent, JAbsent)>>}

Seos ==
  {JAbsent, JNull,
   JDict([title |-> JStr(<<"t">>), description |-> JNull, canonicalUrl |-> JAbsent])}

ShopifyPayloads ==
  {ShopifyPayload(t, b, tg, vs, mf, seo, pa, ua) :
     t \in OptStr({<<"t">>}), b \in OptStr({<<>>, Body}),
     tg \in {JAbsent, JNull, JStr(Chars_abc)},
     vs \in {JAbsent, JNull, JList(<<>>), JList(<<FullVariant>>)},
     mf \in {JAbsent, JNull, JList(<<>>)}, seo \in Seos,
     pa \in {JAbsent, JStr(<<"x">>), Iso(T1)}, ua \in {JAbsent, Iso(T2)}}
  \cup {ShopifyPayload(JStr(<<"t">>), JStr(Body), JAbsent, JList(<<v>>), JAbsent, JAbsent,
                       JAbsent, Iso(T2)) : v \in Variants}
  \cup {ShopifyPayload(JStr(<<"t">>), JStr(Body), tg, JAbsent, JAbsent, JAbsent,
                       JAbsent, Iso(T2)) : tg \in TagFields}
  \cup {ShopifyPayload(JStr(<<"t">>), JStr(Body), JAbsent, JAbsent, JList(mf), JAbsent,
                       JAbsent, Iso(T2)) : mf \in MetafieldLists}

\* GraphQL nodes: every member the query asks for is there, null when the
\* shop has no value for it; lists come wrapped in nodes / edges
Connection(nodes, edges) == JDict([edges |-> edges, nodes |-> nodes])
NodeVariants ==
  {Variant(p, c, ps, Connection(JAbsent, JList(pp))) :
     p \in {JNull, JStr(<<"9", ".", "5">>)}, c \in {JNull, JStr(<<"U", "S", "D">>)},
     ps \in {JNull, JDict([shopMoney |-> Money(JNull, JNull)]),
             JDict([shopMoney |-> Money(JStr(<<"7">>), JStr(<<"E", "U", "R">>))])},
     pp \in {<<>>,
             <<JDict([node |-> JDict([price |-> Money(JStr(<<"7">>), JStr(<<"C", "A", "D">>))])])>>}}
ShopifyNodes ==
  {ShopifyPayload(t, b, JList(<<>>), Connection(JList(vs), JAbsent),
                  Connection(JAbsent, JList(mf)), JNull, JNull, Iso(T2)) :
     t \in {JStr(<<"t">>)}, b \in {JNull, JStr(Body)},
     vs \in {<<>>} \cup {<<v>> : v \in NodeVariants},
     mf \in {<<>>, <<JDict([node |-> Metafield(JStr(<<"n">>), JStr(<<"k">>), JStr(<<"1">>),
                                                 JAbsent, JAbsent)])>>}}

Contents == {JAbsent, JNull, JDict([rendered |-> JAbsent]), JDict([rendered |-> JStr(<<>>)]),
             JDict([rendered |-> JStr(Body)])}
Titles == {JAbsent, JNull, JStr(<<"t">>), JDict([rendered |-> JStr(<<"t">>)]),
           JDict([rendered |-> JAbsent])}
Yoasts ==
  {JAbsent, JNull,
   JDict([title |-> JStr(<<"t">>), description |-> JNull, schema |-> JAbsent])}
WordPressPayloads ==
  {WordPressPayload(t, c, tg, m, a, y, ty, ma) :
     t \in Titles, c \in Contents, tg \in {JAbsent, JNull, JList(<<JNum(12), JNum(3)>>)},
     m \in {JAbsent, JNull, JList(<<>>)}, a \in {JAbsent, JBool(FALSE)}, y \in Yoasts,
     ty \in {JAbsent, JStr(<<"page">>), JStr(<<"attachment">>)}, ma \in {JAbsent, Iso(T1)}}
  \cup {WordPressPayload(JStr(<<"t">>), JNull, tg, JAbsent, JAbsent, JAbsent, JAbsent, Iso(T1)) :
          tg \in TagFields}
  \cup {WordPressPayload(JStr(<<"t">>), JNull, JAbsent, m, a, JAbsent, JAbsent, Iso(T1)) :
          m \in {JAbsent} \cup {JMap(<<<<<<"c", "o", "l", "o", "r">>, v>>>>) : v \in MetaValues},
          a \in {JAbsent} \cup {JMap(<<<<<<"c", "o", "l", "o", "r">>, v>>>>) : v \in MetaValues}}

RawItems ==
  {[adapter |-> "shopify", stage |-> "node", payload |-> n] : n \in ShopifyNodes}
  \cup {[adapter |-> "shopify", stage |-> "payload", payload |-> p] : p \in ShopifyPayloads}
  \cup {[adapter |-> "wordpress", stage |-> "payload", payload |-> p] : p \in WordPressPayloads}

InitAdapters ==
  /\ InitDb /\ InitSeq /\ InitConc /\ src = NoSource /\ IdleSync
  /\ IdleDispatch /\ IdleUnits /\ IdleClient /\ IdleEmbed /\ IdleFetch /\ IdleWorkers
  /\ raw \in RawItems
  /\ mapped = NoMapped

\* iter_products: yield _normalize_product_node(node)
yield_product ==
  /\ raw.adapter = "shopify" /\ raw.stage = "node"
  /\ raw' = [raw EXCEPT !.stage = "payload", !.payload = normalize_product_node(raw.payload)]
  /\ UNCHANGED <<mapped, delivered, task, fetch, emb>>
  /\ UNCHANGED <<dbVars, seqVars, concVars, syncVars, dispVars, poolVars, iterVars>>

\* sync_shopify_store: batch.append(map_shopify_product(product, ...))
sync_map_product ==
  /\ raw.adapter = "shopify" /\ raw.stage = "payload" /\ mapped = NoMapped
  /\ mapped' = map_shopify_product(raw.payload)
  /\ UNCHANGED <<raw, delivered, task, fetch, emb>>
  /\ UNCHANGED <<dbVars, seqVars, concVars, syncVars, dispVars, poolVars, iterVars>>

\* sync_wordpress_site: batch.append(map_wordpress_post(item, ...))
sync_map_post ==
  /\ raw.adapter = "wordpress" /\ raw.stage = "payload" /\ mapped = NoMapped
  /\ mapped' = map_wordpress_post(raw.payload)
  /\ UNCHANGED <<raw, delivered, task, fetch, emb>>
  /\ UNCHANGED <<dbVars, seqVars, concVars, syncVars, dispVars, poolVars, iterVars>>

NextAdapters ==
  \/ yield_product
  \/ sync_map_product
  \/ sync_map_post

SpecAdapters == InitAdapters /\ [][NextAdapters]_vars

\* ------------------------------------------------------------ SpecFetch
\* One call of ShopifyClient._post_graphql or WordPressClient._get under
\* its @retry decorator, the server answering each attempt in any way: the
\* request does not get through (ConnectionError, Timeout), or a response
\* comes with a status; a Shopify response with status 200 carries a
\* payload with or without the member "errors".
NetworkErrors == {"ConnectionError", "Timeout"}
ErrorStatuses == {"401", "404", "429", "500", "503"}
ShopifyAttempts == NetworkErrors \cup ErrorStatuses \cup {"200", "200 errors"}
WordPressAttempts == NetworkErrors \cup ErrorStatuses \cup {"200"}

\* session.post / session.get, response.raise_for_status(), and for
\* Shopify `if "errors" in data: raise RuntimeError`: the exception one
\* attempt raises, None when it returns
raised_by(outcome) ==
  IF outcome \in NetworkErrors THEN outcome
  ELSE IF outcome \in ErrorStatuses THEN "HTTPError"
  ELSE IF outcome = "200 errors" THEN "RuntimeError"
  ELSE None

\* @retry(stop=..., wait=...) names no retry condition: tenacity's default,
\* retry_if_exception_type(), holds for every Exception
retry_if(exc) == exc # None

\* one attempt of the call under way, as tenacity drives it: return the
\* result, or call again when the retry condition holds and the stop
\* condition does not, or raise RetryError when both hold
attempt_call(outcome) ==
  LET n == Len(fetch.outcomes) + 1
      exc == raised_by(outcome)
      seen == Append(fetch.outcomes, outcome) IN
  fetch' = IF exc = None
             THEN [fetch EXCEPT !.outcomes = seen, !.result = "returned"]
           ELSE IF ~ retry_if(exc)
             THEN [fetch EXCEPT !.outcomes = seen, !.result = "raised", !.error = exc]
           ELSE IF GiveUp(n)
             THEN [fetch EXCEPT !.outcomes = seen, !.result = "raised",
                                !.error = "RetryError"]
           ELSE [fetch EXCEPT !.outcomes = seen]

InitFetch ==
  /\ InitDb /\ InitSeq /\ InitConc /\ src = NoSource /\ IdleSync
  /\ IdleDispatch /\ IdleUnits /\ IdleClient /\ IdleEmbed /\ IdleWorkers
  /\ raw = NoRaw /\ mapped = NoMapped
  /\ fetch \in {[kind |-> k, outcomes |-> <<>>, result |-> "pending", error |-> "none"] :
                  k \in {"shopify", "wordpress"}}

\* ShopifyClient._post_graphql, one attempt
post_graphql(outcome) ==
  /\ fetch.kind = "shopify" /\ fetch.result = "pending"
  /\ attempt_call(outcome)
  /\ UNCHANGED <<delivered, task, raw, mapped, emb>>
  /\ UNCHANGED <<dbVars, seqVars, concVars, syncVars, dispVars, poolVars, iterVars>>

\* WordPressClient._get, one attempt
get_page(outcome) ==
  /\ fetch.kind = "wordpress" /\ fetch.result = "pending"
  /\ attempt_call(outcome)
  /\ UNCHANGED <<delivered, task, raw, mapped, emb>>
  /\ UNCHANGED <<dbVars, seqVars, concVars, syncVars, dispVars, poolVars, iterVars>>

NextFetch ==
  \/ \E outcome \in ShopifyAttempts : post_graphql(outcome)
  \/ \E outcome \in WordPressAttempts : get_page(outcome)

SpecFetch == InitFetch /\ [][NextFetch]_vars

\* ------------------------------------------------------ claims on Spec

\* C1: over completed, non-overlapping upsert calls of one tenant, all
\* keyless records with one identity key (source, source_site, source_id)
\* are returned with one and the same surrogate key.
C1_IdentityStability ==
  \A a \in assigned, b \in assigned :
    (a[1] = b[1] /\ a[2] = b[2]) => a[3] = b[3]

\* pairs of keyless records of the last batch that share an identity key
\* and belong to the calling tenant
DupPairs ==
  {p \in (DOMAIN last.resources) \X (DOMAIN last.resources) :
     /\ p[1] < p[2]
     /\ last.resources[p[1]].id = NoId /\ last.resources[p[2]].id = NoId
     /\ last.resources[p[1]].tenant_id = last.tenant_id
     /\ RawKey(last.resources[p[1]]) = RawKey(last.resources[p[2]])}

\* C5: a batch holding two or more keyless records with one identity key
\* gives all of them one surrogate key, stored or not, and leaves exactly
\* one row for that key, holding the values of the last such record.
C5_BatchDuplicates ==
  (last.op = "upsert" /\ DupPairs # {}) =>
    /\ last.ok
    /\ \A p \in DupPairs :
         /\ last.out[p[1]].id = last.out[p[2]].id
         /\ Cardinality({r \in store : RawKey(r) = RawKey(last.resources[p[1]])}) = 1
         /\ (~ \E q \in DupPairs : q[1] = p[2]) =>
              \E r \in store : /\ r.id = last.out[p[2]].id
                               /\ to_row(r) = to_row(last.out[p[2]])

\* C6: get and search under tenant A return rows of A only, the identity
\* lookup of an upsert for A reuses keys of A's rows only, and each of the
\* three returns what it would return were the other tenants' rows absent.
C6_TenantIsolation ==
  /\ last.op \in {"get", "search"} =>
       \A r \in last.out : r.tenant_id = last.tenant_id
  /\ last.op = "get" =>
       last.out = {to_model(r) :
                     r \in get_rows(OwnRows(store, last.tenant_id), last.tenant_id, last.resource_id)}
  /\ last.op = "search" =>
       last.out = {to_model(r) :
                     r \in search_rows(OwnRows(store, last.tenant_id), last.tenant_id,
                                       last.q, last.type_)}
  /\ last.op = "upsert" =>
       /\ \A i \in DOMAIN last.out :
            (last.resources[i].id = NoId /\ last.out[i].id < last.next) =>
              \E r \in last.pre : r.id = last.out[i].id /\ r.tenant_id = last.tenant_id
       /\ last.out \in EnsureChoices(OwnRows(last.pre, last.tenant_id),
                                     apply_tenant_rls(last.tenant_id), last.tenant_id,
                                     last.resources, last.next)

\* witness of C6: a read under one tenant returned a row while another
\* tenant holds a row with the same identity key
C6_Witness ==
  /\ last.op \in {"get", "search"}
  /\ last.out # {}
  /\ \E a \in last.out, b \in store : a.tenant_id # b.tenant_id /\ IdentKey(a) = IdentKey(b)

\* -------------------------------------------------- claims on SpecConc
AllEnded == \A p \in Procs : status[p] # "running"
RowsWithKey(k) == {r \in store : RawKey(r) = k}
Count(sq, x) == Cardinality({i \in DOMAIN sq : sq[i] = x})
Message(i) == <<queue[i].tenant_id, queue[i].resource_ids>>

\* C3: whatever the interleaving of upserts that carry the same new
\* identity key, the store never holds two rows with that key, and holds
\* exactly one once every run has ended (no statement having failed in the
\* database itself).
C3_OneRowPerRacedKey ==
  \A k \in raced :
    /\ Cardinality(RowsWithKey(k)) <= 1
    /\ (AllEnded /\ \A p \in Procs : err[p].type # "OperationalError") =>
         Cardinality(RowsWithKey(k)) = 1

\* C4: the upsert that loses the uniqueness race does not fail: no sync
\* run ends with the constraint violation.
C4_LoserRecovers ==
  \A p \in Procs : err[p].type # "IntegrityError"

\* C7: every embedding message was sent after the commit of its batch:
\* the messages carrying given keys never outnumber the committed batches
\* with those keys, so a batch whose lookup, merge or commit failed has no
\* message.
C7_EnqueueAfterCommit ==
  \A i \in DOMAIN queue :
    Cardinality({j \in DOMAIN queue : Message(j) = Message(i)}) <= Count(commits, Message(i))

\* witness of C7: one call failed at its commit, another committed and
\* sent its message
C7_Witness ==
  /\ \E p \in Procs : status[p] = "failed" /\ err[p].at = "merged"
                      /\ sess[p].resources # <<>>
  /\ Len(queue) = 1
  /\ Len(commits) = 1

\* -------------------------------------------------- claims on SpecSync
\* items (k-1)*100+1 .. min(k*100, n) of the stream, in order
Chunk(k, n) == [j \in 1..Min(100, n - (k - 1) * 100) |-> (k - 1) * 100 + j]

\* C2: a sync run again over unchanged source data, after a run that
\* completed, leaves the row count as the first run left it and resolves
\* to exactly the surrogate keys of the first run; no upsert of the second
\* run fails.
C2_IdempotentResync ==
  /\ run = 2 => Cardinality(store) = hist[1].rows
  /\ (rstat[2] \in {"done", "failed"} /\ rerr[2] # "fetch") =>
       /\ rstat[2] = "done"
       /\ hist[2].rows = hist[1].rows
       /\ keys[2] = keys[1]

\* witness of C2: both runs completed over a source of more than two
\* batches
C2_Witness ==
  /\ rstat[1] = "done" /\ rstat[2] = "done"
  /\ Len(log[2]) = 3
  /\ Cardinality(keys[2]) > 200

\* C8: a run over N items issues floor(N/100) batches of exactly 100
\* items, each as soon as its 100th item has arrived, then one batch of
\* N mod 100 items if that is not zero; the batches hold the items in
\* stream order and are issued in the order they are formed.
C8_Batching ==
  /\ Len(batch) < 100
  /\ \A r \in Runs :
       /\ \A k \in DOMAIN log[r] : log[r][k] = Chunk(k, hist[r].taken)
       /\ (rstat[r] = "running" \/ rerr[r] = "fetch") =>
            Len(log[r]) = hist[r].taken \div 100
       /\ rerr[r] = "upsert" =>
            Len(log[r]) \in {hist[r].taken \div 100, CeilDiv(hist[r].taken, 100)}
       /\ rstat[r] = "done" =>
            /\ hist[r].taken = src.n
            /\ Len(log[r]) = CeilDiv(src.n, 100)

\* witness of C8: a completed run of two full batches and a partial one
C8_Witness ==
  /\ rstat[1] = "done"
  /\ src.n > 200
  /\ Len(log[1]) = 3 /\ Len(log[1][3]) = src.n - 200

\* C9: a page fetch that fails on every attempt is attempted exactly 3
\* times and then ends the run with its error; the run issues no upsert
\* after it: the batches handed over are the full ones formed before, and
\* the store stays as it was.
C9_RetryExhaustion ==
  \A r \in Runs :
    rerr[r] = "fetch" =>
      /\ hist[r].attempts = 3
      /\ rstat[r] = "failed"
      /\ Len(log[r]) = hist[r].taken \div 100
      /\ \A k \in DOMAIN log[r] :
           Len(log[r][k]) = 100 /\ \A j \in DOMAIN log[r][k] : log[r][k][j] <= client.cursor
      /\ Cardinality(store) = hist[r].rows

\* witness of C9: a run ended by a failed fetch after a batch was
\* committed, its partial batch never handed over
C9_Witness ==
  /\ rerr[1] = "fetch"
  /\ Len(log[1]) >= 1
  /\ batch # <<>>
  /\ Cardinality(store) = 100 * Len(log[1])

\* C10 as stated: a fetch survives three consecutive failed attempts, so
\* a run ended by a fetch has seen four of them.
C10_FourthFailureTerminal ==
  \A r \in Runs : rerr[r] = "fetch" => hist[r].attempts >= 4

\* C10 as amended: a fetch survives at most two consecutive failed
\* attempts; the third consecutive failure ends the run.
C10_ThirdFailureTerminal ==
  /\ client.attempt <= 2
  /\ client.retried <= 2
  /\ \A r \in Runs : rerr[r] = "fetch" => hist[r].attempts > 2

\* witness of C10: a page was returned after two failed attempts
C10_Witness ==
  /\ run >= 1
  /\ client.retried = 2
  /\ Buffered

\* batches of run r that were committed: every batch handed to upsert but
\* the one whose upsert raised
Committed(r) == IF rerr[r] = "upsert" THEN Len(log[r]) - 1 ELSE Len(log[r])

\* C11: a run ended by a terminal error (a fetch out of attempts, a failed
\* upsert) after k committed batches is reported failed, never done; the
\* store holds the rows of those k batches as committed (one row per
\* vendor id of the first 100k items, under the keys the run's upserts
\* returned) and no row of a later batch, and one embedding message was
\* sent per committed batch.
C11_AbortKeepsCommitted ==
  \A r \in Runs :
    rerr[r] # None =>
      /\ rstat[r] = "failed"
      /\ Cardinality(store) = hist[r].rows
      /\ Len(queue) = Len(log[1]) + Len(log[2]) - Cardinality({x \in Runs : rerr[x] = "upsert"})
      /\ r = 1 =>
           /\ {row.source_id : row \in store} =
                {ToString(VendorId(src, i)) : i \in 1..(100 * Committed(1))}
           /\ {row.id : row \in store} = keys[1]
           /\ Cardinality(store) = Cardinality(keys[1])
           /\ \A row \in store : to_row(row) = to_row([map_item(src, 1) EXCEPT
                                      !.id = row.id, !.source_id = row.source_id])
           /\ \A k \in 1..Committed(1) : log[1][k] = Chunk(k, 100 * Committed(1))

\* witness of C11: the third upsert of a run failed after two batches were
\* committed
C11_Witness ==
  /\ rerr[1] = "upsert"
  /\ Len(log[1]) = 3
  /\ Cardinality(store) = 200
  /\ Len(queue) = 2

\* C12: a batch is all-or-nothing: when a statement of an upsert fails,
\* the store is left exactly as it was before the call: no record of the
\* batch is inserted or updated and the rows of earlier batches are
\* unchanged.
C12_AllOrNothing ==
  (last.op = "upsert" /\ ~ last.ok) => store = last.pre

\* witness of C12: an upsert failed at its second record on a store that
\* holds rows, after the merge of its first record had changed a row
C12_Witness ==
  /\ last.op = "upsert" /\ ~ last.ok
  /\ Len(last.out) = 2
  /\ last.pre # {}
  /\ LET m == merge(last.pre, apply_tenant_rls(last.tenant_id), to_row(last.out[1]))
     IN m.error = None /\ m.store # last.pre

\* C33: the rows an upsert call for tenant T inserted, and the rows it
\* updated, before and after the update, all belong to T, whatever tenant
\* the records of the batch name.
C33_WritesOwnTenantOnly ==
  last.op = "upsert" =>
    \A r \in (store \ last.pre) \cup (last.pre \ store) : r.tenant_id = last.tenant_id

\* witness of C33: an upsert for one tenant carried a record of its own
\* followed by a record naming another tenant, on a store that holds rows;
\* it failed and wrote nothing
C33_Witness ==
  /\ last.op = "upsert" /\ ~ last.ok
  /\ Len(last.resources) = 2
  /\ last.resources[1].tenant_id = last.tenant_id
  /\ last.resources[2].tenant_id # last.tenant_id
  /\ last.pre # {}
  /\ store = last.pre

\* C17: no upsert changes the identity key (tenant, source, source_site,
\* source_id) of a stored row: a row that keeps its surrogate key keeps
\* its identity key.
C17_IdentityKeyFixed ==
  [][\A r \in store : \A q \in store' : q.id = r.id => RawKey(q) = RawKey(r)]_vars

\* the records of the last batch that were resolved to a row stored before
\* the call, each the last of the batch with its surrogate key
Resolved ==
  {i \in DOMAIN last.out :
     /\ \E old \in last.pre : old.id = last.out[i].id
     /\ \A j \in DOMAIN last.out : j > i => last.out[j].id # last.out[i].id}

\* C18: after an upsert that resolved a record to an existing row, the
\* stored row equals the record on every column but the embedding, and
\* its embedding is the one stored before.
C18_WholesaleReplace ==
  (last.op = "upsert" /\ last.ok) =>
    \A i \in Resolved :
      \E r \in store :
        /\ r.id = last.out[i].id
        /\ to_row(r) = to_row(last.out[i])
        /\ \A old \in last.pre : old.id = r.id => r.embedding = old.embedding

\* identity keys of the keyless records of the last batch
KeylessKeys ==
  {IdentKey(last.resources[i]) : i \in {j \in DOMAIN last.resources : last.resources[j].id = NoId}}

\* C19: a successful upsert returns the input resources in input order,
\* each with a surrogate key; a resource that carried a key keeps it, and
\* the rows stored under its identity key play no part in the result.
C19_ReturnsInputsWithKeys ==
  (last.op = "upsert" /\ last.ok) =>
    /\ Len(last.out) = Len(last.resources)
    /\ \A i \in DOMAIN last.resources :
         /\ last.out[i].id # NoId
         /\ last.out[i] = [last.resources[i] EXCEPT !.id = last.out[i].id]
         /\ last.resources[i].id # NoId => last.out[i].id = last.resources[i].id
    /\ last.out \in EnsureChoices({r \in last.pre : IdentKey(r) \in KeylessKeys},
                                  apply_tenant_rls(last.tenant_id), last.tenant_id,
                                  last.resources, last.next)

\* witness of C19: a successful upsert of a batch with a keyed and a keyless
\* record, the identity key of the keyed one being stored under another
\* surrogate key
C19_Witness ==
  /\ last.op = "upsert" /\ last.ok
  /\ \E i \in DOMAIN last.resources, j \in DOMAIN last.resources :
       /\ last.resources[i].id # NoId
       /\ last.resources[j].id = NoId
       /\ \E r \in last.pre : /\ r.tenant_id = last.tenant_id
                               /\ IdentKey(r) = IdentKey(last.resources[i])
                               /\ r.id # last.resources[i].id

\* C20: an upsert that commits a non-empty batch sends exactly one
\* message, for its tenant, with the surrogate keys of the batch in batch
\* order; an upsert of an empty batch, and one that fails, sends none.
C20_OneMessagePerBatch ==
  [][calls' = calls + 1 =>
       queue' = IF last'.ok /\ last'.resources # <<>>
                  THEN Append(queue, [tenant_id |-> last'.tenant_id,
                                      resource_ids |-> Ids(last'.out)])
                  ELSE queue]_vars

\* witness of C20: the second committed batch of two records with
\* different keys has its message, after the message of the first
C20_Witness ==
  /\ last.op = "upsert" /\ last.ok
  /\ Len(last.out) = 2 /\ last.out[1].id # last.out[2].id
  /\ Len(queue) = 2
  /\ queue[2] = [tenant_id |-> last.tenant_id, resource_ids |-> Ids(last.out)]

\* ---------------------------------------------- claims on SpecDispatch
Given(v) == v # None /\ v # ""
Refused == reply \in {"SyncDispatchError", "400"} /\ tasks = <<>>
NothingElseTouched ==
  /\ store = {} /\ queue = <<>> /\ nextId = 1
  /\ request \in Requests

\* C13 as stated: a dispatched request is refused with SyncDispatchError,
\* no task being sent and nothing else changed, when the source is shopify
\* and store_domain or access_token is absent or empty, when it is
\* wordpress and base_url or site_id is absent or empty, and when it is
\* neither.
C13_RejectsAsStated ==
  reply # "pending" =>
    /\ (Payload.source = "shopify" /\ ~ (Given(Payload.store_domain) /\ Given(Payload.access_token)))
         => Refused
    /\ (Payload.source = "wordpress" /\ ~ (Given(Payload.base_url) /\ Given(Payload.site_id)))
         => Refused
    /\ Payload.source \notin {"shopify", "wordpress"} => Refused
    /\ NothingElseTouched

\* C13 as amended: for wordpress the request is refused when base_url is
\* absent or empty, or when neither site_id nor source_site is given.
C13_RejectsMissingFields ==
  reply # "pending" =>
    /\ (Payload.source = "shopify" /\ ~ (Given(Payload.store_domain) /\ Given(Payload.access_token)))
         => Refused
    /\ (Payload.source = "wordpress" /\
          ~ (Given(Payload.base_url) /\ (Given(Payload.site_id) \/ Given(Payload.source_site))))
         => Refused
    /\ Payload.source \notin {"shopify", "wordpress"} => Refused
    /\ NothingElseTouched

\* witness of C13: a shopify request with a store_domain and an empty
\* access_token was refused
C13_Witness ==
  /\ reply = "SyncDispatchError"
  /\ request.source = "shopify"
  /\ request.store_domain = "x" /\ request.access_token = ""
  /\ tasks = <<>>

\* ------------------------------------------------- claims on SpecUnits
\* C14: every statement a unit of work issues after set_config runs with
\* app.tenant_id equal to the unit's tenant; while a unit holds a
\* connection in a transaction the setting is its tenant; and a connection
\* in the pool carries no tenant setting and no open transaction, so a
\* later unit that takes it starts from no tenant context.
C14_TenantContextScoped ==
  /\ \A s \in stmts : s[2] = s[1]
  /\ \A c \in Conns :
       /\ conn[c].owner = None => (conn[c].guc = None /\ conn[c].base = None /\ ~ conn[c].intx)
       /\ (conn[c].owner # None /\ conn[c].intx) => conn[c].guc = unit[conn[c].owner].tenant_id
       /\ (conn[c].owner # None /\ ~ conn[c].intx) => conn[c].guc = None

\* witness of C14: a unit of one tenant has issued a statement on a
\* connection that a committed unit of the other tenant held before it
C14_Witness ==
  \E w \in Workers :
    /\ unit[w].pc = "run"
    /\ Len(unit[w].todo) < Len(Program(unit[w].op, unit[w].arg))
    /\ conn[unit[w].conn].prev \notin {None, unit[w].tenant_id}
    /\ <<unit[w].tenant_id, unit[w].tenant_id>> \in stmts

\* ------------------------------------------------ claims on SpecClient
\* the items of responses 1..i, in order
RECURSIVE AllItems(_)
AllItems(i) == IF i = 0 THEN <<>> ELSE AllItems(i - 1) \o PageItems(i, resps[i])

\* C15: iter_products sends no cursor with its first request and with each
\* later request the endCursor of the response before; it has yielded the
\* nodes of all responses in order; it went on after a response only when
\* that response had hasNextPage true, and it has stopped as soon as a
\* response had hasNextPage false or absent.
C15_CursorPagination ==
  iter.kind = "shopify" =>
    /\ Len(reqs) = Len(resps)
    /\ \A i \in DOMAIN reqs :
         reqs[i] = IF i = 1 THEN None ELSE resps[i - 1].endCursor
    /\ yielded = AllItems(Len(resps))
    /\ \A i \in 1..(Len(resps) - 1) : resps[i].hasNextPage = "true"
    /\ iter.done <=> (resps # <<>> /\ resps[Len(resps)].hasNextPage \in {"false", None})

\* witness of C15: an iteration of three pages has stopped at a response
\* without hasNextPage, having sent the cursors of the first two
C15_Witness ==
  /\ iter.kind = "shopify" /\ iter.done
  /\ reqs = <<None, "c1", "c2">>
  /\ resps[3].hasNextPage = None
  /\ Len(yielded) = 5

\* C16 as stated: iter_items requests pages 1, 2, 3, ... one at a time,
\* has yielded the items of all responses in order, and has stopped
\* exactly when the response just received had no items or its page
\* number had reached the total-page count the response reported.
C16_PageCountTermination ==
  iter.kind = "wordpress" =>
    /\ Len(reqs) = Len(resps)
    /\ \A i \in DOMAIN reqs : reqs[i] = i
    /\ yielded = AllItems(Len(resps))
    /\ \A i \in 1..(Len(resps) - 1) :
         resps[i].n > 0 /\ ~ (resps[i].total # NoTotal /\ i >= resps[i].total)
    /\ iter.done <=>
         /\ resps # <<>>
         /\ LET resp == resps[Len(resps)] IN
            resp.n = 0 \/ (resp.total # NoTotal /\ Len(resps) >= resp.total)

\* C16 as amended: it has stopped exactly when the response just received
\* had no items, or reported no total-page count, or its page number had
\* reached the count reported.
C16_PageCountOrNoCount ==
  iter.kind = "wordpress" =>
    /\ Len(reqs) = Len(resps)
    /\ \A i \in DOMAIN reqs : reqs[i] = i
    /\ yielded = AllItems(Len(resps))
    /\ \A i \in 1..(Len(resps) - 1) :
         resps[i].n > 0 /\ resps[i].total # NoTotal /\ i < resps[i].total
    /\ iter.done <=>
         /\ resps # <<>>
         /\ LET resp == resps[Len(resps)] IN
            resp.n = 0 \/ resp.total = NoTotal \/ Len(resps) >= resp.total

\* witness of C16: an iteration has stopped at page 3, which had items and
\* reported three pages in all
C16_Witness ==
  /\ iter.kind = "wordpress" /\ iter.done
  /\ reqs = <<1, 2, 3>>
  /\ resps[3].n = 2 /\ resps[3].total = 3
  /\ Len(yielded) = 5

\* C30: a response without a total-page count ends the iteration of
\* iter_items: the items of that page are yielded after those of the pages
\* before it, and no further page is requested, whatever the source had
\* reported before.
C30_NoCountIsLastPage ==
  iter.kind = "wordpress" =>
    \A i \in DOMAIN resps :
      (resps[i].total = NoTotal) =>
        /\ i = Len(resps) /\ Len(reqs) = i
        /\ iter.done
        /\ yielded = AllItems(i)
        /\ resps[i].n > 0 => iter.page = i

\* witness of C30: the first response reported three pages, the second one
\* had items and no count, and the iteration stopped there
C30_Witness ==
  /\ iter.kind = "wordpress" /\ iter.done
  /\ reqs = <<1, 2>>
  /\ resps[1].total = 3 /\ resps[1].n = 1
  /\ resps[2].total = NoTotal /\ resps[2].n = 2
  /\ Len(yielded) = 3

\* --------------------------------------------------- claims on SpecApi
\* the rows with the requested surrogate key that the requesting tenant
\* may see
VisibleToRequest ==
  {r \in store : r.tenant_id = request.tenant_id /\ r.id = request.resource_id}

\* C21: a get that meets no other failure raises ResourceNotFoundError
\* exactly when no row with the key is visible to the tenant and returns
\* the row otherwise; ResourceNotFoundError is raised only when no such
\* row is visible, whatever else fails; and the API answers 404 exactly
\* for ResourceNotFoundError and 400 exactly for a rejected sync request
\* (or an invalid tenant header), never 404 for either.
C21_NotFoundDistinct ==
  /\ (request.via = "get" /\ reply # "pending" /\ request.tenant_id \in Tenants) =>
       /\ last.op = "get"
       /\ request.fault = None =>
            IF VisibleToRequest = {}
              THEN last.error = "ResourceNotFoundError"
              ELSE last.error = None /\ last.out = VisibleToRequest /\ reply = "200"
       /\ last.error = "ResourceNotFoundError" => VisibleToRequest = {}
       /\ reply = "404" <=> last.error = "ResourceNotFoundError"
       /\ reply # "400"
  /\ (request.via = "get" /\ reply # "pending" /\ request.tenant_id \notin Tenants) =>
       reply = "400" /\ last = NoCall
  /\ (request.via = "api" /\ reply # "pending") =>
       /\ reply \in {"400", "202"}
       /\ reply = "400" <=>
            dispatch_sync(request.source, request.tenant_id, Payload).error = "SyncDispatchError"

\* witness of C21: tenant tA asked for a key that only a row of tenant tB
\* holds and got 404
C21_Witness ==
  /\ request.via = "get" /\ reply = "404"
  /\ request.tenant_id = "tA" /\ request.resource_id = 2
  /\ \E r \in store : r.id = 2 /\ r.tenant_id = "tB"

\* ------------------------------------------- claims on SpecUnits (2)
\* C22: a unit of work that has ended (by return, by not-found, by the
\* early return of enqueue_embedding on zero keys, or by an exception)
\* holds no open session and no connection; a session is open only while
\* its unit is still running or in its finally block.
C22_SessionsClosed ==
  \A w \in Workers :
    /\ unit[w].pc \in {"idle", "ended"} =>
         /\ unit[w].session # "open"
         /\ \A c \in Conns : conn[c].owner # w
    /\ unit[w].pc = "ended" =>
         /\ unit[w].session = "closed"
         /\ unit[w].exit \in {"return", "ResourceNotFoundError", "exception"}

\* witness of C22: one worker's upsert ended by an exception and the
\* other's get by not-found, after an enqueue_embedding with no ids and a
\* search had held and given back the pool's connections
C22_Witness ==
  /\ unit["u1"].pc = "ended" /\ unit["u1"].op = "upsert" /\ unit["u1"].exit = "exception"
  /\ unit["u2"].pc = "ended" /\ unit["u2"].op = "get"
  /\ unit["u2"].exit = "ResourceNotFoundError"
  /\ \A c \in Conns : conn[c].prev # None /\ conn[c].owner = None

\* ------------------------------------------------- claims on SpecEmbed
\* the rows a task step processes: those of the message's tenant whose key
\* is in the message
Processed(st, t) ==
  {r \in st : r.tenant_id = t.tenant_id /\ \E i \in DOMAIN t.resource_ids : t.resource_ids[i] = r.id}
TextLess(r) == r.body_text \in {NoText, <<>>} /\ r.body_html \in {NoText, <<>>}
RowOf(st, id) == CHOOSE r \in st : r.id = id

\* C23: after a run of enqueue_embedding that ended without error, every
\* row it processed whose body_text and body_html are both null or empty
\* has a null embedding, whatever embedding it had before.
C23_ClearsStaleEmbedding ==
  [][(delivered' = delivered + 1 /\ task'.error = None) =>
       \A r \in Processed(store, task') :
         TextLess(r) => \A n \in store' : n.id = r.id => n.embedding = NoEmbedding]_vars

\* witness of C23: the last task ran on a row without text that held an
\* embedding from an earlier task, and the row's embedding is now null
C23_Witness ==
  /\ task.msg = 2 /\ task.error = None
  /\ \E r \in Processed(task.pre, task) :
       /\ TextLess(r) /\ r.embedding # NoEmbedding
       /\ RowOf(store, r.id).embedding = NoEmbedding

\* C24: when no database statement fails, a run of enqueue_embedding in
\* which the provider raises for some rows ends without error and commits:
\* those rows have a null embedding, every other processed row with text
\* has the embedding of its text, and the step changes nothing of the
\* sync run that sent the message (its upsert's outcome, its calls, the
\* messages sent).
C24_ProviderFailureContained ==
  [][(delivered' = delivered + 1 /\ task'.fault = None /\ task'.raised # {}) =>
       /\ task'.error = None
       /\ \A r \in Processed(store, task') :
            /\ r.id \in task'.raised => RowOf(store', r.id).embedding = NoEmbedding
            /\ (r.id \notin task'.raised /\ ~ TextLess(r)) =>
                 RowOf(store', r.id).embedding =
                   Len(IF r.body_text \in {NoText, <<>>} THEN r.body_html ELSE r.body_text)
       /\ last' = last /\ calls' = calls /\ queue' = queue /\ assigned' = assigned]_vars

\* witness of C24: in a message of two rows the provider raised for one,
\* which lost the embedding it had, and the other row got its embedding
C24_Witness ==
  /\ task.msg > 0 /\ task.error = None /\ task.fault = None
  /\ Len(task.resource_ids) = 2
  /\ \E a \in Processed(task.pre, task), b \in Processed(task.pre, task) :
       /\ a.id \in task.raised /\ a.embedding # NoEmbedding
       /\ RowOf(store, a.id).embedding = NoEmbedding
       /\ b.id \notin task.raised /\ b.embedding = NoEmbedding
       /\ RowOf(store, b.id).embedding # NoEmbedding
  /\ last.op = "upsert" /\ last.ok

\* C31: a run of enqueue_embedding changes nothing but the embedding of
\* the rows it processed: every other row is as before, every processed
\* row is as before in every column but embedding, updated_at included,
\* and no row is added or removed.
C31_OnlyEmbeddingChanges ==
  [][delivered' = delivered + 1 =>
       /\ Cardinality(store') = Cardinality(store)
       /\ \A r \in store :
            IF r \in Processed(store, task')
              THEN [RowOf(store', r.id) EXCEPT !.embedding = r.embedding] = r
              ELSE r \in store']_vars

\* --------------------------------------------- claims on SpecEmbedConc
\* every message has been taken and no run of enqueue_embedding is under way
Quiescent ==
  /\ delivered = Len(queue)
  /\ \A w \in EmbWorkers : emb[w].pc = "idle"

\* C32: once every message sent has been processed, each stored row that
\* has text carries the embedding of its current text.
C32_EmbeddingsCurrent ==
  Quiescent =>
    \A r \in store : TextTruthy(TextOf(r)) => r.embedding = embed(TextOf(r))

\* ---------------------------------------------- claims on SpecAdapters
Mapped == mapped # NoMapped
Missing_member(m) == m.k \in {"absent", "null"} \/ (m.k \in {"str", "list", "map"} /\ m.v = <<>>)

\* C25: the adapter raises for no raw item whose optional members are
\* missing, null or empty in any combination, and returns a resource in
\* which a missing title, body, tag field, metadata or variant list gives a
\* null title, body_html and body_text, no tags, no attributes, and no
\* price and currency.
C25_AdapterTotality ==
  Mapped =>
    /\ mapped.error = None
    /\ Missing_member(raw.payload.title) => ~ Truth(mapped.title)
    /\ Missing_member(raw.payload.tags) => mapped.tags = <<>>
    /\ (raw.adapter = "shopify" /\ Missing_member(raw.payload.bodyHtml)) =>
         (~ Truth(mapped.body_html) /\ mapped.body_text = JNull)
    /\ (raw.adapter = "shopify" /\ Missing_member(raw.payload.variants)) =>
         (mapped.price = JNull /\ mapped.currency = JNull)
    /\ (raw.adapter = "shopify" /\ Missing_member(raw.payload.metafields)) =>
         mapped.attributes = <<>>
    /\ (raw.adapter = "wordpress" /\ Missing_member(raw.payload.content)) =>
         (mapped.body_html = JNull /\ mapped.body_text = JNull)
    /\ (raw.adapter = "wordpress" /\ Missing_member(raw.payload.meta)
          /\ ~ Truth(raw.payload.acf)) => mapped.attributes = <<>>

\* the tag field the raw item carries, and the same tags as an array
TagsOf(adapter, field) ==
  IF adapter = "shopify" THEN shopify_extract_tags(Get(field)) ELSE wordpress_extract_tags(field)
AsArray(field) == JList([i \in DOMAIN Split(field.v, ",") |-> JStr(Split(field.v, ",")[i])])

\* C26: in each adapter the tags of a resource are trimmed and not empty,
\* a tag field given as a delimiter-separated string gives the tags that
\* the same tags give as an array, and "a, b ,c" gives a, b, c.
C26_TagNormalization ==
  (Mapped /\ mapped.error = None) =>
    /\ \A i \in DOMAIN mapped.tags :
         mapped.tags[i] # <<>> /\ mapped.tags[i] = Strip(mapped.tags[i])
    /\ raw.payload.tags.k = "str" =>
         mapped.tags = TagsOf(raw.adapter, AsArray(raw.payload.tags))
    /\ raw.payload.tags = JStr(Chars_abc) => mapped.tags = <<<<"a">>, <<"b">>, <<"c">>>>

\* the string form of a metadata value as the statement gives it
RECURSIVE Flat(_)
Flat(value) ==
  IF value.k = "list" THEN Join([i \in DOMAIN value.v |-> Flat(value.v[i])], <<",">>)
  ELSE IF value.k = "map"
    THEN Join([i \in DOMAIN value.v |-> value.v[i][1] \o <<":">> \o Flat(value.v[i][2])], <<",">>)
  ELSE IF value.k = "null" THEN <<>>
  ELSE str(value)
Attribute(name) ==
  {mapped.attributes[i][2] : i \in {j \in DOMAIN mapped.attributes : mapped.attributes[j][1] = name}}

\* C27: a Shopify item with one metadata entry that has a namespace n, a
\* key k and a value v (a scalar, an array or an object) and nothing else
\* (no stringValue, no jsonValue) is mapped to a
\* resource with the one attribute n.k, whose value is the string form of
\* v; a WordPress custom field k of the group acf with value v gives the
\* attribute acf.k with the string form of v.
C27_MetadataFlattening ==
  (Mapped /\ mapped.error = None) =>
    /\ (raw.adapter = "shopify" /\ raw.payload.metafields.k = "list"
          /\ Len(raw.payload.metafields.v) = 1) =>
         LET field == raw.payload.metafields.v[1].v IN
         (Truth(field.namespace) /\ Truth(field.key)
            /\ field.value.k \in {"str", "num", "bool", "list", "map"}
            /\ field.stringValue = JAbsent /\ field.jsonValue = JAbsent) =>
           /\ Len(mapped.attributes) = 1
           /\ Attribute(field.namespace.v \o <<".">> \o field.key.v) = {Flat(field.value)}
    /\ (raw.adapter = "wordpress" /\ raw.payload.acf.k = "map") =>
         \A i \in DOMAIN raw.payload.acf.v :
           Attribute(<<"a", "c", "f", ".">> \o raw.payload.acf.v[i][1])
             = {Flat(raw.payload.acf.v[i][2])}

\* ----------------------------------------------- claims on SpecSync (2)
\* the items of the batches run r handed to upsert
Handed(r) == UNION {Range(log[r][k]) : k \in DOMAIN log[r]}

\* C29: the attempts are counted per page fetch: a run is ended by a fetch
\* only when that fetch itself failed three times in a row, whatever the
\* fetches before it went through; so a run none of whose fetches fails
\* three times in a row (and none of whose upserts fails) ends done, with
\* every item of the source taken and handed over in a committed batch.
C29_BudgetPerFetch ==
  /\ client.fails < MaxAttempts
  /\ \A r \in Runs :
       /\ rstat[r] = "failed" => (rerr[r] = "upsert" \/ hist[r].fails = MaxAttempts)
       /\ rstat[r] = "done" =>
            /\ hist[r].taken = src.n
            /\ Handed(r) = 1..src.n
            /\ Committed(r) = Len(log[r])

\* witness of C29: a run over several pages ended done although two of its
\* fetches each failed twice before the page came
C29_Witness ==
  /\ rstat[1] = "done"
  /\ client.earlier = 2 /\ client.retried = 2
  /\ src.n > 100
  /\ Cardinality(store) >= 200

\* ------------------------------------------------------ claims on SpecFetch
\* the failures the statement calls transient: a network error, a timeout,
\* a response with a retryable status
TransientFailures == NetworkErrors \cup {"429", "500", "503"}

\* C28: an attempt is followed by another one only when it failed in a
\* transient way; an attempt that failed otherwise (status 401 or 404, a
\* GraphQL payload with errors) was the only one of its call, and the call
\* raised its exception.
C28_RetryOnlyTransient ==
  fetch.kind # None =>
    /\ \A i \in 1..(Len(fetch.outcomes) - 1) : fetch.outcomes[i] \in TransientFailures
    /\ \A i \in DOMAIN fetch.outcomes :
         (raised_by(fetch.outcomes[i]) # None /\ fetch.outcomes[i] \notin TransientFailures) =>
           /\ i = 1 /\ Len(fetch.outcomes) = 1
           /\ fetch.result = "raised"
           /\ fetch.error = raised_by(fetch.outcomes[i])

====
